---- MODULE Spec2Model ----
(***************************************************************************)
(* A model of spss_converter: the ColumnMetadata / Metadata objects of     *)
(* Metadata.py, their conversions to and from plain mappings and the       *)
(* pyreadstat metadata container, and the functions of read.py and         *)
(* write.py.                                                               *)
(*                                                                         *)
(* Python values are tagged records [kind, val]; a Python str is the       *)
(* sequence of its characters, a list is a sequence, a dict is the         *)
(* sequence of its <<key, value>> items in insertion order.  A call        *)
(* either returns or raises: operators return [err, ...] with err = ""     *)
(* when nothing was raised and the exception's class name otherwise.       *)
(***************************************************************************)
EXTENDS Integers, Sequences, FiniteSets, TLC

VARIABLES
    col,     \* the ColumnMetadata instance held by the caller
    nsets,   \* number of setter calls made on col since it was built
    meta,    \* the Metadata instance held by the caller
    native,  \* the pyreadstat metadata_container held by the caller
    call,    \* the last call: [op, arg]
    ret,     \* what the last call returned (None when it raised)
    err,     \* class name of the exception the last call raised, "" if none
    ncalls,  \* calls made to the functions of read.py and write.py so far
    reads,   \* calls made to pyreadstat.read_sav so far
    parses,  \* sources parsed by write.py so far (read_json, safe_load)
    writes,  \* calls made to pyreadstat.write_sav so far
    created, \* scratch files created so far
    ondisk,  \* scratch files now on disk
    out,     \* what the target handed to the last call holds after it (None if nothing)
    heap,    \* the objects the caller passed by reference, as they are now, by address
    other    \* a second Metadata instance held by the caller

rvars == <<ncalls, reads, parses, writes, created, ondisk, out, heap, other>>
vars == <<col, nsets, meta, native, call, ret, err,
          ncalls, reads, parses, writes, created, ondisk, out, heap, other>>

(***************************************************************************)
(* Bounds                                                                  *)
(***************************************************************************)
MaxSets == 2      \* setter calls on one ColumnMetadata instance
MaxWidth == 1     \* largest display / storage width tried
MaxRanges == 2    \* longest missing-range list tried
MaxBound == 1     \* largest missing-range bound tried
MaxLines == 2     \* most lines in one notes value
MaxMetaSets == 2  \* setter calls on one Metadata instance
MaxRows == 1      \* largest row count tried
MaxColumns == 2   \* most columns in one Metadata
MaxCalls == 2     \* calls made to the functions of read.py
FileRows == 2     \* records in the dataset read

(***************************************************************************)
(* Python values                                                           *)
(***************************************************************************)
None == [kind |-> "NoneType", val |-> 0]
PyInt(i) == [kind |-> "int", val |-> i]
PyStr(s) == [kind |-> "str", val |-> s]
PyList(xs) == [kind |-> "list", val |-> xs]
PyDict(items) == [kind |-> "dict", val |-> items]

StrKinds == {"str", "VariableAlignmentEnum", "VariableMeasureEnum"}

IsNone(v) == v.kind = "NoneType"
IsStr(v) == v.kind \in StrKinds
IsInt(v) == v.kind = "int"
IsList(v) == v.kind = "list"
IsDict(v) == v.kind = "dict"

\* Python truthiness: `not v`
Falsy(v) ==
    \/ IsNone(v)
    \/ IsInt(v) /\ v.val = 0
    \/ (IsStr(v) \/ IsList(v) \/ IsDict(v)) /\ v.val = <<>>

\* Python ==, for the kinds of value a field can hold: a str-mixin enum
\* member compares equal to the str of its value
PyEq(a, b) ==
    IF IsStr(a) /\ IsStr(b) THEN a.val = b.val ELSE a = b

Range(s) == {s[i] : i \in DOMAIN s}

\* --- characters -----------------------------------------------------------
UpperChars == {"A", "C", "E", "F", "G", "H", "I", "L", "N", "R", "T", "Y"}
LowerChars == {"a", "b", "c", "d", "e", "f", "g", "h", "i", "k", "l", "m",
               "n", "o", "r", "s", "t", "u", "w", "x", "y"}
DigitChars == {"0", "1", "2", "3", "4", "5", "6", "7", "8", "9"}

LowerChar(c) ==
    CASE c = "A" -> "a" [] c = "C" -> "c" [] c = "E" -> "e" [] c = "F" -> "f"
      [] c = "G" -> "g" [] c = "H" -> "h" [] c = "I" -> "i" [] c = "L" -> "l"
      [] c = "N" -> "n" [] c = "R" -> "r" [] c = "T" -> "t" [] c = "Y" -> "y"
      [] OTHER -> c

\* str.lower()
Lower(s) == [i \in DOMAIN s |-> LowerChar(s[i])]

DigitVal(c) ==
    CASE c = "0" -> 0 [] c = "1" -> 1 [] c = "2" -> 2 [] c = "3" -> 3
      [] c = "4" -> 4 [] c = "5" -> 5 [] c = "6" -> 6 [] c = "7" -> 7
      [] c = "8" -> 8 [] c = "9" -> 9 [] OTHER -> 0

IsDigits(s) == s # <<>> /\ \A i \in DOMAIN s : s[i] \in DigitChars

RECURSIVE ParseDigits(_)
ParseDigits(s) ==
    IF s = <<>> THEN 0
    ELSE 10 * ParseDigits(SubSeq(s, 1, Len(s) - 1)) + DigitVal(s[Len(s)])

\* --- dicts ----------------------------------------------------------------
DictKeys(d) == [i \in DOMAIN d.val |-> d.val[i][1]]
DictHas(d, k) == \E i \in DOMAIN d.val : d.val[i][1] = k
DictIndex(d, k) == CHOOSE i \in DOMAIN d.val : d.val[i][1] = k
\* d.get(k, default)
DictGet(d, k, default) == IF DictHas(d, k) THEN d.val[DictIndex(d, k)][2] ELSE default
\* d[k] = v : overwrite in place, or append
DictSet(d, k, v) ==
    IF DictHas(d, k)
    THEN PyDict([d.val EXCEPT ![DictIndex(d, k)] = <<k, v>>])
    ELSE PyDict(Append(d.val, <<k, v>>))
\* the dict left by d.pop(k, default)
DictRemove(d, k) ==
    IF DictHas(d, k)
    THEN LET i == DictIndex(d, k)
         IN PyDict(SubSeq(d.val, 1, i - 1) \o SubSeq(d.val, i + 1, Len(d.val)))
    ELSE d

(***************************************************************************)
(* validator_collection, as Metadata.py calls it.  Each validator returns  *)
(* [err, val].                                                             *)
(***************************************************************************)
Ok(v) == [err |-> "", val |-> v]
Raise(e) == [err |-> e, val |-> None]

\* validators.string(value, allow_empty = ...)
validators_string(value, allow_empty) ==
    IF Falsy(value)
    THEN IF allow_empty THEN Ok(None) ELSE Raise("EmptyValueError")
    ELSE IF IsStr(value) THEN Ok(value) ELSE Raise("CannotCoerceError")

\* parse('%s = None' % value) succeeds
IsIdentifier(s) ==
    /\ s # <<>>
    /\ s[1] \in UpperChars \cup LowerChars \cup {"_"}
    /\ \A i \in DOMAIN s : s[i] \in UpperChars \cup LowerChars \cup DigitChars \cup {"_"}

\* validators.variable_name(value, allow_empty = ...)
validators_variable_name(value, allow_empty) ==
    IF Falsy(value)
    THEN IF allow_empty THEN Ok(None) ELSE Raise("EmptyValueError")
    ELSE IF IsStr(value) /\ IsIdentifier(value.val)
         THEN Ok(value)
         ELSE Raise("InvalidVariableNameError")

\* validators.numeric(value, allow_empty = ..., minimum = ...); hasMin says
\* whether a minimum was given
validators_numeric(value, allow_empty, hasMin, minimum) ==
    IF IsNone(value)
    THEN IF allow_empty THEN Ok(None) ELSE Raise("EmptyValueError")
    ELSE LET n == IF IsInt(value) THEN Ok(value)
                  ELSE IF IsStr(value) /\ IsDigits(value.val)
                       THEN Ok(PyInt(ParseDigits(value.val)))
                       ELSE Raise("CannotCoerceError")
         IN IF n.err = "" /\ hasMin /\ n.val.val < minimum
            THEN Raise("MinimumValueError")
            ELSE n

\* validators.integer(value, allow_empty = ..., minimum = ..., coerce_value = ...):
\* every number of the model is integral, so coerce_value changes nothing
validators_integer(value, allow_empty, hasMin, minimum) ==
    validators_numeric(value, allow_empty, hasMin, minimum)

\* validators.dict(value, allow_empty = ...)
validators_dict(value, allow_empty) ==
    IF Falsy(value)
    THEN IF allow_empty THEN Ok(None) ELSE Raise("EmptyValueError")
    ELSE IF IsDict(value) THEN Ok(value)
         ELSE IF IsStr(value) THEN Raise("CannotCoerceError")
              ELSE Raise("NotADictError")

\* validators.iterable(value, allow_empty = ...)
validators_iterable(value, allow_empty) ==
    IF Falsy(value) /\ ~allow_empty THEN Raise("EmptyValueError")
    ELSE IF IsNone(value) THEN Ok(None)
    ELSE IF IsList(value) \/ IsDict(value) THEN Ok(value)
    ELSE Raise("NotAnIterableError")

\* checkers.is_string / is_numeric / is_iterable / is_type
is_string(value) == IsStr(value)
is_numeric(value) == IsInt(value)
is_iterable(value) == IsList(value) \/ IsDict(value)
is_type(value, name) == value.kind = name

ValidationErrors == {"EmptyValueError", "CannotCoerceError", "MinimumValueError",
                     "NotADictError", "NotAnIterableError",
                     "InvalidVariableNameError", "ValueError"}

(***************************************************************************)
(* String literals of Metadata.py                                          *)
(***************************************************************************)
s_unknown == <<"u", "n", "k", "n", "o", "w", "n">>
s_left == <<"l", "e", "f", "t">>
s_center == <<"c", "e", "n", "t", "e", "r">>
s_right == <<"r", "i", "g", "h", "t">>
s_nominal == <<"n", "o", "m", "i", "n", "a", "l">>
s_ordinal == <<"o", "r", "d", "i", "n", "a", "l">>
s_scale == <<"s", "c", "a", "l", "e">>
s_name == <<"n", "a", "m", "e">>
s_label == <<"l", "a", "b", "e", "l">>
s_alignment == <<"a", "l", "i", "g", "n", "m", "e", "n", "t">>
s_measure == <<"m", "e", "a", "s", "u", "r", "e">>
s_display_width == <<"d", "i", "s", "p", "l", "a", "y", "_", "w", "i", "d", "t", "h">>
s_storage_width == <<"s", "t", "o", "r", "a", "g", "e", "_", "w", "i", "d", "t", "h">>
s_value_metadata ==
    <<"v", "a", "l", "u", "e", "_", "m", "e", "t", "a", "d", "a", "t", "a">>
s_missing_range_metadata ==
    <<"m", "i", "s", "s", "i", "n", "g", "_", "r", "a", "n", "g", "e", "_", "m", "e",
      "t", "a", "d", "a", "t", "a">>
s_missing_value_metadata ==
    <<"m", "i", "s", "s", "i", "n", "g", "_", "v", "a", "l", "u", "e", "_", "m", "e",
      "t", "a", "d", "a", "t", "a">>
s_low == <<"l", "o", "w">>
s_high == <<"h", "i", "g", "h">>
s_lo == <<"l", "o">>
s_hi == <<"h", "i">>
s_AlignmentUNKNOWN ==
    <<"V", "a", "r", "i", "a", "b", "l", "e", "A", "l", "i", "g", "n", "m", "e", "n",
      "t", "E", "n", "u", "m", ".", "U", "N", "K", "N", "O", "W", "N">>
s_MeasureUNKNOWN ==
    <<"V", "a", "r", "i", "a", "b", "l", "e", "M", "e", "a", "s", "u", "r", "e", "E",
      "n", "u", "m", ".", "U", "N", "K", "N", "O", "W", "N">>

(***************************************************************************)
(* The two vocabularies                                                    *)
(***************************************************************************)
\* [member.value for name, member in VariableAlignmentEnum.__members__.items()]
VariableAlignmentEnum == {s_unknown, s_left, s_center, s_right}
\* [member.value for name, member in VariableMeasureEnum.__members__.items()]
VariableMeasureEnum == {s_unknown, s_nominal, s_ordinal, s_scale}

\* the enum members the constructor stores: str-mixin Enum members
AlignmentUNKNOWN == [kind |-> "VariableAlignmentEnum", val |-> s_unknown]
MeasureUNKNOWN == [kind |-> "VariableMeasureEnum", val |-> s_unknown]

\* str(v): Enum.__str__ for an enum member, the value itself for a str
str(v) ==
    CASE v.kind = "VariableAlignmentEnum" -> PyStr(s_AlignmentUNKNOWN)
      [] v.kind = "VariableMeasureEnum" -> PyStr(s_MeasureUNKNOWN)
      [] OTHER -> v

(***************************************************************************)
(* ColumnMetadata                                                          *)
(***************************************************************************)
\* ColumnMetadata.__init__ without keyword arguments
ColumnMetadata_init ==
    [name |-> None,
     label |-> None,
     value_metadata |-> None,
     missing_range_metadata |-> None,
     missing_value_metadata |-> None,
     alignment |-> AlignmentUNKNOWN,
     measure |-> MeasureUNKNOWN,
     display_width |-> None,
     storage_width |-> None]

\* a setter's outcome: the instance after the call, and the exception if any
Stored(obj, f, v) == [err |-> "", obj |-> [obj EXCEPT ![f] = v]]
Failed(obj, e) == [err |-> e, obj |-> obj]

set_name(obj, value) ==
    LET v == validators_variable_name(value, TRUE)
    IN IF v.err # "" THEN Failed(obj, v.err) ELSE Stored(obj, "name", v.val)

set_label(obj, value) ==
    LET v == validators_string(value, TRUE)
    IN IF v.err # "" THEN Failed(obj, v.err) ELSE Stored(obj, "label", v.val)

\* set_alignment without value.lower()
set_alignment_no_lower(obj, value) ==
    LET v == validators_string(value, FALSE)
    IN IF v.err # "" THEN Failed(obj, v.err)
       ELSE IF v.val.val \notin VariableAlignmentEnum
            THEN Failed(obj, "ValueError")
            ELSE Stored(obj, "alignment", PyStr(v.val.val))

set_alignment(obj, value) ==
    LET v == validators_string(value, FALSE)
    IN IF v.err # "" THEN Failed(obj, v.err)
       ELSE LET lowered == Lower(v.val.val)
            IN IF lowered \notin VariableAlignmentEnum
               THEN Failed(obj, "ValueError")
               ELSE Stored(obj, "alignment", PyStr(lowered))

set_measure(obj, value) ==
    LET v == validators_string(value, FALSE)
    IN IF v.err # "" THEN Failed(obj, v.err)
       ELSE LET lowered == Lower(v.val.val)
            IN IF lowered \notin VariableMeasureEnum
               THEN Failed(obj, "ValueError")
               ELSE Stored(obj, "measure", PyStr(lowered))

set_display_width(obj, value) ==
    LET v == validators_integer(value, FALSE, TRUE, 0)
    IN IF v.err # "" THEN Failed(obj, v.err) ELSE Stored(obj, "display_width", v.val)

set_storage_width(obj, value) ==
    LET v == validators_integer(value, FALSE, TRUE, 0)
    IN IF v.err # "" THEN Failed(obj, v.err) ELSE Stored(obj, "storage_width", v.val)

\* index of the first item of a sequence of validator results that raised, 0 if none
FirstErr(rs) ==
    IF \E i \in DOMAIN rs : rs[i].err # ""
    THEN CHOOSE i \in DOMAIN rs : rs[i].err # "" /\ \A j \in 1..(i - 1) : rs[j].err = ""
    ELSE 0

set_value_metadata(obj, value) ==
    LET v == validators_dict(value, TRUE)
    IN IF v.err # "" THEN Failed(obj, v.err)
       ELSE IF Falsy(v.val) THEN Stored(obj, "value_metadata", None)
       ELSE LET items == v.val.val
                rs == [i \in DOMAIN items |-> validators_string(items[i][2], TRUE)]
                bad == FirstErr(rs)
            IN IF bad # 0 THEN Failed(obj, rs[bad].err)
               ELSE Stored(obj, "value_metadata",
                           PyDict([i \in DOMAIN items |-> <<items[i][1], rs[i].val>>]))

\* what `for x in value` yields
Iterate(value) == IF IsDict(value) THEN DictKeys(value) ELSE value.val

\* validated_range with the two bounds stored under each other's key
validated_range_swapped(range) ==
    IF ~DictHas(range, PyStr(s_high)) \/ ~DictHas(range, PyStr(s_low))
    THEN Raise("ValueError")
    ELSE LET high == validators_numeric(DictGet(range, PyStr(s_low), None), FALSE, FALSE, 0)
             low == validators_numeric(DictGet(range, PyStr(s_high), None), FALSE, FALSE, 0)
         IN IF high.err # "" THEN Raise(high.err)
            ELSE IF low.err # "" THEN Raise(low.err)
            ELSE Ok(PyDict(<< <<PyStr(s_high), high.val>>, <<PyStr(s_low), low.val>> >>))

\* the body of the loop over ranges: one record, checked and rebuilt
validated_range(range) ==
    IF ~DictHas(range, PyStr(s_high)) \/ ~DictHas(range, PyStr(s_low))
    THEN Raise("ValueError")
    ELSE LET high == validators_numeric(DictGet(range, PyStr(s_high), None), FALSE, FALSE, 0)
             low == validators_numeric(DictGet(range, PyStr(s_low), None), FALSE, FALSE, 0)
         IN IF high.err # "" THEN Raise(high.err)
            ELSE IF low.err # "" THEN Raise(low.err)
            ELSE Ok(PyDict(<< <<PyStr(s_high), high.val>>, <<PyStr(s_low), low.val>> >>))

set_missing_range_metadata(obj, value) ==
    LET v == validators_iterable(value, TRUE)
    IN IF v.err # "" THEN Failed(obj, v.err)
       ELSE IF Falsy(v.val) THEN Stored(obj, "missing_range_metadata", None)
       ELSE LET xs == Iterate(v.val)
                ranges == [i \in DOMAIN xs |-> validators_dict(xs[i], FALSE)]
                badDict == FirstErr(ranges)
                validated == [i \in DOMAIN xs |->
                                 IF ranges[i].err = "" THEN validated_range(ranges[i].val)
                                 ELSE ranges[i]]
                bad == FirstErr(validated)
            IN IF badDict # 0 THEN Failed(obj, ranges[badDict].err)
               ELSE IF bad # 0 THEN Failed(obj, validated[bad].err)
               ELSE Stored(obj, "missing_range_metadata",
                           PyList([i \in DOMAIN xs |-> validated[i].val]))

\* validators.int: the validators module has no attribute of that name
validators_int(item) == Raise("AttributeError")

\* try: validators.string(item) except (ValueError, TypeError): validators.int(item)
validated_item(item) ==
    LET s == validators_string(item, FALSE)
    IN IF s.err = "" THEN s ELSE validators_int(item)

set_missing_value_metadata(obj, value) ==
    IF Falsy(value) THEN Stored(obj, "missing_value_metadata", None)
    ELSE LET value2 == IF is_string(value) \/ is_numeric(value)
                       THEN PyList(<<value>>) ELSE value
         IN IF ~(IsList(value2) \/ IsDict(value2)) THEN Failed(obj, "TypeError")
            ELSE LET xs == Iterate(value2)
                     rs == [i \in DOMAIN xs |-> validated_item(xs[i])]
                     bad == FirstErr(rs)
                 IN IF bad # 0 THEN Failed(obj, rs[bad].err)
                    ELSE Stored(obj, "missing_value_metadata",
                                PyList([i \in DOMAIN xs |-> rs[i].val]))

\* setattr(instance, key, value): the property setter of that name
setattr(obj, f, value) ==
    CASE f = "name" -> set_name(obj, value)
      [] f = "label" -> set_label(obj, value)
      [] f = "alignment" -> set_alignment(obj, value)
      [] f = "measure" -> set_measure(obj, value)
      [] f = "display_width" -> set_display_width(obj, value)
      [] f = "storage_width" -> set_storage_width(obj, value)
      [] f = "value_metadata" -> set_value_metadata(obj, value)
      [] f = "missing_range_metadata" -> set_missing_range_metadata(obj, value)
      [] f = "missing_value_metadata" -> set_missing_value_metadata(obj, value)

\* the order in which from_dict assigns, and to_dict lists, the nine fields
FieldOrder ==
    <<"name", "label", "alignment", "measure", "display_width", "storage_width",
      "value_metadata", "missing_range_metadata", "missing_value_metadata">>

\* the mapping key of each field
FieldKey(f) ==
    CASE f = "name" -> PyStr(s_name)
      [] f = "label" -> PyStr(s_label)
      [] f = "alignment" -> PyStr(s_alignment)
      [] f = "measure" -> PyStr(s_measure)
      [] f = "display_width" -> PyStr(s_display_width)
      [] f = "storage_width" -> PyStr(s_storage_width)
      [] f = "value_metadata" -> PyStr(s_value_metadata)
      [] f = "missing_range_metadata" -> PyStr(s_missing_range_metadata)
      [] f = "missing_value_metadata" -> PyStr(s_missing_value_metadata)

\* ColumnMetadata.to_dict
ColumnMetadata_to_dict(obj) ==
    PyDict([i \in DOMAIN FieldOrder |-> <<FieldKey(FieldOrder[i]), obj[FieldOrder[i]]>>])

\* ColumnMetadata.from_dict from its i-th assignment on: each statement pops
\* its key from as_dict (the default being the instance's current value) and
\* assigns through the setter; the first setter that raises ends the call.
\* Returns [err, obj, as_dict]: as_dict is the caller's mapping after the call.
RECURSIVE from_dict_from(_, _, _)
from_dict_from(i, obj, as_dict) ==
    IF i > Len(FieldOrder) THEN [err |-> "", obj |-> obj, as_dict |-> as_dict]
    ELSE LET f == FieldOrder[i]
             value == DictGet(as_dict, FieldKey(f), obj[f])
             popped == DictRemove(as_dict, FieldKey(f))
             r == setattr(obj, f, value)
         IN IF r.err # ""
            THEN [err |-> r.err, obj |-> obj, as_dict |-> popped]
            ELSE from_dict_from(i + 1, r.obj, popped)

ColumnMetadata_from_dict(as_dict) == from_dict_from(1, ColumnMetadata_init, as_dict)

(***************************************************************************)
(* The pyreadstat metadata container and Metadata, as constructed          *)
(***************************************************************************)
\* metadata_container(): every collection empty, every scalar None.  `rows`
\* is not an attribute of a new container; None stands for "never assigned".
metadata_container ==
    [column_names |-> PyList(<<>>),
     column_labels |-> PyList(<<>>),
     column_names_to_labels |-> PyDict(<<>>),
     variable_alignment |-> PyDict(<<>>),
     variable_measure |-> PyDict(<<>>),
     variable_display_width |-> PyDict(<<>>),
     variable_storage_width |-> PyDict(<<>>),
     variable_value_labels |-> PyDict(<<>>),
     value_labels |-> PyDict(<<>>),
     variable_to_label |-> PyDict(<<>>),
     missing_ranges |-> PyDict(<<>>),
     missing_user_values |-> PyDict(<<>>),
     table_name |-> None,
     file_label |-> None,
     file_encoding |-> None,
     notes |-> PyList(<<>>),
     number_rows |-> None,
     rows |-> None]

\* Metadata.__init__ without keyword arguments
Metadata_init ==
    [column_metadata |-> None,
     notes |-> None,
     file_encoding |-> None,
     rows |-> PyInt(0),
     table_name |-> None,
     file_label |-> None]

\* an instance as a Python value
ColumnMetadataObj(obj) == [kind |-> "ColumnMetadata", val |-> obj]
MetadataObj(obj) == [kind |-> "Metadata", val |-> obj]

(***************************************************************************)
(* Values the callers of the model pass                                    *)
(***************************************************************************)
n_age == <<"a", "g", "e">>
n_sex == <<"s", "e", "x">>
n_1a == <<"1", "a">>
l_Age == <<"A", "g", "e">>
l_Yes == <<"Y", "e", "s">>

NameInputs == {None, PyStr(n_age), PyStr(n_sex), PyStr(n_1a), PyStr(<<>>)}
LabelInputs == {None, PyStr(<<>>), PyStr(l_Age), PyInt(1)}
AlignmentInputs ==
    {PyStr(s_left), PyStr(<<"L", "e", "f", "t">>), PyStr(<<"C", "E", "N", "T", "E", "R">>),
     PyStr(s_unknown), PyStr(<<"d", "i", "a", "g", "o", "n", "a", "l">>),
     PyStr(s_scale), PyStr(<<>>), None, PyInt(1), AlignmentUNKNOWN}
MeasureInputs ==
    {PyStr(s_scale), PyStr(<<"N", "o", "m", "i", "n", "a", "l">>),
     PyStr(<<"O", "R", "D", "I", "N", "A", "L">>), PyStr(s_unknown),
     PyStr(s_left), PyStr(<<>>), None, PyInt(1), MeasureUNKNOWN}
WidthInputs == {None, PyStr(<<"1">>), PyStr(<<"x">>)} \cup {PyInt(i) : i \in -1..MaxWidth}
ValueMetadataInputs ==
    {None, PyDict(<<>>), PyInt(1),
     PyDict(<< <<PyInt(1), PyStr(l_Yes)>> >>),
     PyDict(<< <<PyInt(1), PyStr(l_Yes)>>, <<PyInt(0), PyStr(<<>>)>> >>),
     PyDict(<< <<PyInt(1), PyInt(1)>> >>)}

\* range records: both bounds, one bound only, both bounds and a further key
RangeRecord(l, h) == PyDict(<< <<PyStr(s_low), PyInt(l)>>, <<PyStr(s_high), PyInt(h)>> >>)
RangeRecords ==
    {RangeRecord(0, h) : h \in 0..MaxBound}
    \cup {PyDict(<< <<PyStr(s_high), PyInt(MaxBound)>>, <<PyStr(s_low), PyInt(0)>>,
                    <<PyStr(<<"x">>), PyInt(1)>> >>)}
BadRangeRecords ==
    {PyDict(<< <<PyStr(s_low), PyInt(0)>> >>),
     PyDict(<< <<PyStr(s_high), PyInt(MaxBound)>> >>)}

SeqsUpTo(S, n) == UNION {[1..k -> S] : k \in 0..n}
\* the sequences of at most n distinct elements of S
DistinctSeqs(S, n) ==
    {xs \in SeqsUpTo(S, n) : \A i, j \in DOMAIN xs : i # j => xs[i] # xs[j]}

\* lists of distinct well-formed records; a malformed record alone, and after
\* a well-formed one
MissingRangeInputs ==
    {None, PyInt(1)}
    \cup {PyList(xs) : xs \in DistinctSeqs(RangeRecords, MaxRanges)}
    \cup {PyList(<<r>>) : r \in BadRangeRecords}
    \cup {PyList(<<RangeRecord(0, MaxBound), r>>) : r \in BadRangeRecords}
MissingValueInputs ==
    {None, PyInt(0), PyInt(1), PyStr(<<"a">>), PyList(<<>>),
     PyList(<<PyStr(<<"a">>), PyStr(<<"b">>)>>), PyList(<<PyInt(1)>>)}

(***************************************************************************)
(* The ColumnMetadata machine: one instance, its constructor, its nine     *)
(* setters, and the mapping round trip                                     *)
(***************************************************************************)
Call(op, arg) == [op |-> op, arg |-> arg]

InitColumn ==
    /\ ncalls = 0 /\ reads = 0 /\ parses = 0 /\ writes = 0
    /\ created = 0 /\ ondisk = 0 /\ out = None
    /\ heap = <<>> /\ other = Metadata_init
    /\ col = ColumnMetadata_init
    /\ nsets = 0
    /\ meta = Metadata_init
    /\ native = metadata_container
    /\ call = Call("ColumnMetadata", None)
    /\ ret = ColumnMetadataObj(ColumnMetadata_init)
    /\ err = ""

\* ColumnMetadata()
NewColumn ==
    /\ col' = ColumnMetadata_init
    /\ nsets' = 0
    /\ call' = Call("ColumnMetadata", None)
    /\ ret' = ColumnMetadataObj(ColumnMetadata_init)
    /\ err' = ""
    /\ UNCHANGED <<rvars, meta, native>>

\* instance.<f> = value
Assign(f, value) ==
    /\ nsets < MaxSets
    /\ LET r == setattr(col, f, value)
       IN /\ col' = r.obj
          /\ err' = r.err
    /\ nsets' = nsets + 1
    /\ call' = Call(f, value)
    /\ ret' = None
    /\ UNCHANGED <<rvars, meta, native>>

SetName == \E v \in NameInputs : Assign("name", v)
SetLabel == \E v \in LabelInputs : Assign("label", v)
SetAlignment == \E v \in AlignmentInputs : Assign("alignment", v)
SetMeasure == \E v \in MeasureInputs : Assign("measure", v)
SetDisplayWidth == \E v \in WidthInputs : Assign("display_width", v)
SetStorageWidth == \E v \in WidthInputs : Assign("storage_width", v)
SetValueMetadata == \E v \in ValueMetadataInputs : Assign("value_metadata", v)
SetMissingRangeMetadata == \E v \in MissingRangeInputs : Assign("missing_range_metadata", v)
SetMissingValueMetadata == \E v \in MissingValueInputs : Assign("missing_value_metadata", v)

\* ColumnMetadata.from_dict(instance.to_dict())
ColumnRoundTrip ==
    /\ LET as_dict == ColumnMetadata_to_dict(col)
           r == ColumnMetadata_from_dict(as_dict)
       IN /\ call' = Call("from_dict(to_dict)", as_dict)
          /\ ret' = IF r.err = "" THEN ColumnMetadataObj(r.obj) ELSE None
          /\ err' = r.err
    /\ UNCHANGED <<rvars, col, nsets, meta, native>>

NextColumn ==
    \/ NewColumn
    \/ SetName
    \/ SetLabel
    \/ SetAlignment
    \/ SetMeasure
    \/ SetDisplayWidth
    \/ SetStorageWidth
    \/ SetValueMetadata
    \/ SetMissingRangeMetadata
    \/ SetMissingValueMetadata
    \/ ColumnRoundTrip

SpecColumn == InitColumn /\ [][NextColumn]_vars

(***************************************************************************)
(* ColumnMetadata.from_dict called on mappings that lack some of the keys  *)
(***************************************************************************)
\* a mapping with a valid value under seven of the nine keys and a key that
\* is none of the nine; the mappings made of any part of it
FullMapping ==
    << <<PyStr(s_name), PyStr(n_age)>>, <<PyStr(s_label), PyStr(l_Age)>>,
       <<PyStr(s_alignment), PyStr(s_left)>>,
       <<PyStr(s_display_width), PyInt(1)>>, <<PyStr(s_storage_width), PyInt(1)>>,
       <<PyStr(s_value_metadata), PyDict(<< <<PyInt(1), PyStr(l_Yes)>> >>)>>,
       <<PyStr(s_missing_value_metadata), PyList(<<PyStr(<<"a">>)>>)>>,
       <<PyStr(<<"n", "o", "t", "e">>), PyInt(1)>> >>
PartialMappings ==
    {PyDict(SelectSeq(FullMapping, LAMBDA item : item[1] \in keys)) :
        keys \in SUBSET {FullMapping[i][1] : i \in DOMAIN FullMapping}}

\* a value the setter of the key rejects
InvalidValue(key) ==
    CASE key = PyStr(s_name) -> PyStr(n_1a)
      [] key = PyStr(s_alignment) -> PyStr(<<"d", "i", "a", "g", "o", "n", "a", "l">>)
      [] key = PyStr(s_display_width) -> PyInt(-1)
      [] key = PyStr(s_storage_width) -> PyStr(<<"x">>)
      [] key = PyStr(s_missing_value_metadata) -> PyList(<<PyInt(1)>>)

\* the mapping with the values under the keys of bad replaced by invalid ones
Spoil(items, bad) ==
    PyDict([i \in DOMAIN items |->
              IF items[i][1] \in bad THEN <<items[i][1], InvalidValue(items[i][1])>>
              ELSE items[i]])

\* mappings that hold two or more invalid values, with every key present and
\* with the key display_width missing
InvalidMappings ==
    {Spoil(items, bad) :
        items \in {FullMapping,
                   SelectSeq(FullMapping, LAMBDA item : item[1] # PyStr(s_display_width))},
        bad \in {b \in SUBSET {PyStr(s_name), PyStr(s_alignment), PyStr(s_display_width),
                                PyStr(s_storage_width), PyStr(s_missing_value_metadata)} :
                    Cardinality(b) >= 2}}

\* ColumnMetadata.from_dict(as_dict); heap[1] is the mapping object passed, as
\* the call left it
ColumnFromDict ==
    \E as_dict \in PartialMappings \cup InvalidMappings :
        /\ LET r == ColumnMetadata_from_dict(as_dict)
           IN /\ ret' = IF r.err = "" THEN ColumnMetadataObj(r.obj) ELSE None
              /\ err' = r.err
              /\ heap' = <<r.as_dict>>
        /\ call' = Call("from_dict", as_dict)
        /\ UNCHANGED <<ncalls, reads, parses, writes, created, ondisk, out, other,
                       col, nsets, meta, native>>

SpecFromDict == InitColumn /\ [][ColumnFromDict]_vars

(***************************************************************************)
(* Properties of the ColumnMetadata machine                                *)
(***************************************************************************)
\* field-by-field equality of two instances
ColumnEq(a, b) == \A i \in DOMAIN FieldOrder : PyEq(a[FieldOrder[i]], b[FieldOrder[i]])

\* C1: for every instance c the machine can hold, from_dict(c.to_dict())
\* succeeds and returns an instance equal to c in all nine fields
C1_ColumnRoundTrip ==
    call.op = "from_dict(to_dict)" => err = "" /\ ColumnEq(ret.val, col)

\* C19: from_dict succeeds for every part of a mapping of valid values, with
\* or without an unknown key: a field whose key is present holds the value
\* given and a field whose key is missing holds the default of a freshly
\* constructed instance
C19_FromDictPartial ==
    call.op = "from_dict" =>
        /\ err = ""
        /\ \A i \in DOMAIN FieldOrder :
              PyEq(ret.val[FieldOrder[i]],
                   DictGet(call.arg, FieldKey(FieldOrder[i]),
                           ColumnMetadata_init[FieldOrder[i]]))

\* the setter of field f rejects the value the mapping holds under its key
Rejected(as_dict, f) ==
    /\ DictHas(as_dict, FieldKey(f))
    /\ setattr(ColumnMetadata_init, f, DictGet(as_dict, FieldKey(f), None)).err # ""

\* C25: from_dict called on a mapping that holds invalid values fails with the
\* error of the first field, in assignment order, whose value is invalid, and
\* returns no instance
C25_FirstInvalidField ==
    (call.op = "from_dict" /\ \E i \in DOMAIN FieldOrder : Rejected(call.arg, FieldOrder[i])) =>
        LET first == CHOOSE i \in DOMAIN FieldOrder :
                        /\ Rejected(call.arg, FieldOrder[i])
                        /\ \A j \in 1..(i - 1) : ~Rejected(call.arg, FieldOrder[j])
            f == FieldOrder[first]
        IN /\ err = setattr(ColumnMetadata_init, f, DictGet(call.arg, FieldKey(f), None)).err
           /\ ret = None

\* C28: from_dict leaves the mapping passed to it as it was: no key added,
\* removed or changed
C28_MappingUnchanged ==
    call.op = "from_dict" => heap[1] = call.arg

\* C26: assigning missing_value_metadata a single string or a single integer
\* stores the one-element sequence of that value, and assigning a non-empty
\* sequence of strings or integers stores those values in the same order
C26_MissingValuesStored ==
    LET scalar(v) == v.kind \in {"str", "int"}
    IN /\ (call.op = "missing_value_metadata" /\ scalar(call.arg)) =>
              err = "" /\ col.missing_value_metadata = PyList(<<call.arg>>)
       /\ (/\ call.op = "missing_value_metadata" /\ IsList(call.arg) /\ call.arg.val # <<>>
           /\ \A i \in DOMAIN call.arg.val : scalar(call.arg.val[i])) =>
              err = "" /\ col.missing_value_metadata = call.arg

\* C8: assigning alignment (measure) a string that matches a vocabulary word
\* ignoring case stores the lowercase word, any other value fails with a
\* validation error, and alignment and measure always equal a vocabulary word
C8_EnumVocabulary ==
    /\ \E w \in VariableAlignmentEnum : PyEq(col.alignment, PyStr(w))
    /\ \E w \in VariableMeasureEnum : PyEq(col.measure, PyStr(w))
    /\ call.op = "alignment" =>
         IF IsStr(call.arg) /\ Lower(call.arg.val) \in {s_unknown, s_left, s_center, s_right}
         THEN err = "" /\ col.alignment = PyStr(Lower(call.arg.val))
         ELSE err \in ValidationErrors
    /\ call.op = "measure" =>
         IF IsStr(call.arg) /\ Lower(call.arg.val) \in {s_unknown, s_nominal, s_ordinal, s_scale}
         THEN err = "" /\ col.measure = PyStr(Lower(call.arg.val))
         ELSE err \in ValidationErrors

\* a mixed-case word was assigned and its lowercase form is stored
C8_Witness ==
    /\ call = Call("alignment", PyStr(<<"C", "E", "N", "T", "E", "R">>))
    /\ err = ""
    /\ col.alignment = PyStr(s_center)

HasBothBounds(rec) == IsDict(rec) /\ DictHas(rec, PyStr(s_low)) /\ DictHas(rec, PyStr(s_high))

\* C9: assigning missing_range_metadata a sequence with a record lacking
\* 'low' or 'high' fails with a validation error and stores nothing; a
\* sequence whose records all have both stores one record per input record,
\* in order, with exactly the keys low and high and the input's bounds; the
\* empty sequence stores None
C9_MissingRangeShape ==
    [][(call'.op = "missing_range_metadata" /\ IsList(call'.arg)) =>
         LET xs == call'.arg.val
             stored == col'.missing_range_metadata
         IN IF xs = <<>> THEN err' = "" /\ stored = None
            ELSE IF \E i \in DOMAIN xs : ~HasBothBounds(xs[i])
            THEN err' \in ValidationErrors /\ col' = col
            ELSE /\ err' = ""
                 /\ IsList(stored)
                 /\ Len(stored.val) = Len(xs)
                 /\ \A i \in DOMAIN xs :
                      /\ Range(DictKeys(stored.val[i])) = {PyStr(s_low), PyStr(s_high)}
                      /\ Len(stored.val[i].val) = 2
                      /\ DictGet(stored.val[i], PyStr(s_low), None)
                           = DictGet(xs[i], PyStr(s_low), None)
                      /\ DictGet(stored.val[i], PyStr(s_high), None)
                           = DictGet(xs[i], PyStr(s_high), None)
      ]_vars

\* two records with both bounds were assigned and are stored in input order
C9_Witness ==
    /\ call.op = "missing_range_metadata"
    /\ IsList(call.arg)
    /\ Len(call.arg.val) = 2
    /\ call.arg.val[1] # call.arg.val[2]
    /\ \A i \in DOMAIN call.arg.val : HasBothBounds(call.arg.val[i])
    /\ err = ""
    /\ IsList(col.missing_range_metadata)
    /\ Len(col.missing_range_metadata.val) = 2

(***************************************************************************)
(* ColumnMetadata <-> pyreadstat metadata container                        *)
(***************************************************************************)
\* a run of assignments instance.<f> = value, ended by the first that raises
RECURSIVE assign_all(_, _, _)
assign_all(i, obj, pairs) ==
    IF i > Len(pairs) THEN [err |-> "", obj |-> obj]
    ELSE LET r == setattr(obj, pairs[i][1], pairs[i][2])
         IN IF r.err # "" THEN [err |-> r.err, obj |-> obj]
            ELSE assign_all(i + 1, r.obj, pairs)

\* ColumnMetadata(**kwargs)
ColumnMetadata_new(kwargs) == assign_all(1, ColumnMetadata_init, kwargs)

\* x in a_list
ListHas(xs, x) == \E i \in DOMAIN xs.val : PyEq(xs.val[i], x)

\* the same comprehension reading 'hi' for low and 'lo' for high
ranges_from_native_swapped(missing_ranges) ==
    PyList([i \in DOMAIN missing_ranges.val |->
              PyDict(<< <<PyStr(s_low), DictGet(missing_ranges.val[i], PyStr(s_hi), None)>>,
                        <<PyStr(s_high), DictGet(missing_ranges.val[i], PyStr(s_lo), None)>> >>)])

\* [{'low': x.get('lo'), 'high': x.get('hi')} for x in missing_ranges]
ranges_from_native(missing_ranges) ==
    PyList([i \in DOMAIN missing_ranges.val |->
              PyDict(<< <<PyStr(s_low), DictGet(missing_ranges.val[i], PyStr(s_lo), None)>>,
                        <<PyStr(s_high), DictGet(missing_ranges.val[i], PyStr(s_hi), None)>> >>)])

\* the assignments of from_pyreadstat_metadata after the name check, in order
native_assignments(name, as_metadata) ==
    LET instance == ColumnMetadata_init
    IN << <<"name", name>>,
          <<"label", DictGet(as_metadata.column_names_to_labels, name, None)>>,
          <<"alignment", DictGet(as_metadata.variable_alignment, name, instance.alignment)>>,
          <<"measure", DictGet(as_metadata.variable_measure, name, instance.measure)>>,
          <<"display_width",
            DictGet(as_metadata.variable_display_width, name, instance.display_width)>>,
          <<"storage_width",
            DictGet(as_metadata.variable_storage_width, name, instance.storage_width)>>,
          <<"value_metadata",
            DictGet(as_metadata.variable_value_labels, name, instance.value_metadata)>>,
          <<"missing_range_metadata",
            ranges_from_native(DictGet(as_metadata.missing_ranges, name, PyList(<<>>)))>>,
          <<"missing_value_metadata",
            DictGet(as_metadata.missing_user_values, name, None)>> >>

\* from_pyreadstat_metadata without the test of name against column_names
from_pyreadstat_metadata_unchecked(name, as_metadata) ==
    LET v == validators_variable_name(name, FALSE)
    IN IF v.err # "" THEN [err |-> v.err, obj |-> ColumnMetadata_init]
       ELSE assign_all(1, ColumnMetadata_init, native_assignments(v.val, as_metadata))

\* ColumnMetadata.from_pyreadstat_metadata(name, as_metadata): [err, obj]
ColumnMetadata_from_pyreadstat_metadata(name, as_metadata) ==
    LET v == validators_variable_name(name, FALSE)
    IN IF v.err # "" THEN [err |-> v.err, obj |-> ColumnMetadata_init]
       ELSE IF ~ListHas(as_metadata.column_names, v.val)
       THEN [err |-> "ColumnNameNotFoundError", obj |-> ColumnMetadata_init]
       ELSE assign_all(1, ColumnMetadata_init, native_assignments(v.val, as_metadata))

\* [{'lo': x.get('low'), 'hi': x.get('high')} for x in self.missing_range_metadata]
ranges_to_native(missing_range_metadata) ==
    PyList([i \in DOMAIN missing_range_metadata.val |->
              PyDict(<< <<PyStr(s_lo), DictGet(missing_range_metadata.val[i], PyStr(s_low), None)>>,
                        <<PyStr(s_hi), DictGet(missing_range_metadata.val[i], PyStr(s_high), None)>> >>)])

\* a_list.index(x)
ListIndex(xs, x) ==
    CHOOSE i \in DOMAIN xs.val : PyEq(xs.val[i], x) /\ \A j \in 1..(i - 1) : ~PyEq(xs.val[j], x)

\* an add_to_pyreadstat that appends to the lists without looking the name up
add_appending(self, pyreadstat) ==
    [pyreadstat EXCEPT !.column_names = PyList(Append(@.val, self.name)),
                       !.column_labels = PyList(Append(@.val, self.label))]

\* ColumnMetadata.add_to_pyreadstat(pyreadstat): the container after the call
ColumnMetadata_add_to_pyreadstat(self, pyreadstat) ==
    LET p1 == [pyreadstat EXCEPT
                 !.column_names_to_labels = DictSet(@, self.name, self.label),
                 !.variable_alignment = DictSet(@, self.name, str(self.alignment)),
                 !.variable_measure = DictSet(@, self.name, str(self.measure)),
                 !.variable_display_width = DictSet(@, self.name, self.display_width),
                 !.variable_storage_width = DictSet(@, self.name, self.storage_width)]
        p2 == IF ~IsNone(self.value_metadata)
              THEN [p1 EXCEPT
                      !.variable_value_labels = DictSet(@, self.name, self.value_metadata),
                      !.value_labels = DictSet(@, self.label, self.value_metadata)]
              ELSE p1
        p3 == [p2 EXCEPT !.variable_to_label = DictSet(@, self.name, self.label)]
        p4 == IF ~Falsy(self.missing_range_metadata)
              THEN [p3 EXCEPT !.missing_ranges =
                      DictSet(@, self.name, ranges_to_native(self.missing_range_metadata))]
              ELSE p3
        p5 == IF ~Falsy(self.missing_value_metadata)
              THEN [p4 EXCEPT !.missing_user_values =
                      DictSet(@, self.name, self.missing_value_metadata)]
              ELSE p4
    IN IF ~ListHas(p5.column_names, self.name)
       THEN [p5 EXCEPT !.column_names = PyList(Append(@.val, self.name)),
                       !.column_labels = PyList(Append(@.val, self.label))]
       ELSE LET index == ListIndex(p5.column_names, self.name)
            IN [p5 EXCEPT !.column_names = PyList([@.val EXCEPT ![index] = self.name]),
                          !.column_labels = PyList([@.val EXCEPT ![index] = self.label])]

(***************************************************************************)
(* The native machine: a container the codec handed to the caller, and     *)
(* ColumnMetadata.from_pyreadstat_metadata called on it                    *)
(***************************************************************************)
\* native missing-range records
NativeRange(lo, hi) == PyDict(<< <<PyStr(s_lo), PyInt(lo)>>, <<PyStr(s_hi), PyInt(hi)>> >>)
NativeRangeLists ==
    {PyList(xs) : xs \in DistinctSeqs({NativeRange(0, h) : h \in 0..MaxBound}
                                      \cup {NativeRange(MaxBound, MaxBound)}, MaxRanges)}

\* the per-variable mappings of the container
PerVariable ==
    {"column_names_to_labels", "variable_alignment", "variable_measure",
     "variable_display_width", "variable_storage_width", "variable_value_labels",
     "missing_ranges", "missing_user_values"}

\* a container listing the columns `names` whose per-variable mappings in
\* `present` hold an entry for the column age, and no entry for any other
NativeFor(names, present, width, ranges) ==
    LET age == PyStr(n_age)
        entry(m, v) == IF m \in present THEN PyDict(<< <<age, v>> >>) ELSE PyDict(<<>>)
    IN [metadata_container EXCEPT
          !.column_names = PyList(names),
          !.column_labels = PyList([i \in DOMAIN names |->
                                      IF names[i] = age /\ "column_names_to_labels" \in present
                                      THEN PyStr(l_Age) ELSE None]),
          !.column_names_to_labels = entry("column_names_to_labels", PyStr(l_Age)),
          !.variable_alignment = entry("variable_alignment", PyStr(s_right)),
          !.variable_measure = entry("variable_measure", PyStr(s_scale)),
          !.variable_display_width = entry("variable_display_width", PyInt(width)),
          !.variable_storage_width = entry("variable_storage_width", PyInt(MaxWidth)),
          !.variable_value_labels =
              entry("variable_value_labels",
                    PyDict(<< <<PyInt(1), PyStr(l_Yes)>>, <<PyInt(0), PyStr(<<"N", "o">>)>> >>)),
          !.missing_ranges = entry("missing_ranges", ranges),
          !.missing_user_values =
              entry("missing_user_values", PyList(<<PyStr(<<"a">>), PyStr(<<"b">>)>>)),
          !.number_rows = PyInt(1)]

ColumnNameLists == {<<>>, <<PyStr(n_age)>>, <<PyStr(n_sex), PyStr(n_age)>>}

\* which per-variable mappings hold an entry: all, none, all but one, only one
PresentSets ==
    {PerVariable, {}} \cup {PerVariable \ {m} : m \in PerVariable}
    \cup {{m} : m \in PerVariable}

NativeInputs ==
    {NativeFor(names, present, width, ranges) :
        names \in ColumnNameLists, present \in PresentSets,
        width \in 0..MaxWidth, ranges \in NativeRangeLists}

ContainerObj(n) == [kind |-> "metadata_container", val |-> n]

InitNative ==
    /\ ncalls = 0 /\ reads = 0 /\ parses = 0 /\ writes = 0
    /\ created = 0 /\ ondisk = 0 /\ out = None
    /\ heap = <<>> /\ other = Metadata_init
    /\ native \in NativeInputs
    /\ col = ColumnMetadata_init
    /\ nsets = 0
    /\ meta = Metadata_init
    /\ call = Call("read_sav", None)
    /\ ret = None
    /\ err = ""

\* ColumnMetadata.from_pyreadstat_metadata(name, native)
FromPyreadstatMetadata ==
    \E name \in NameInputs :
        LET r == ColumnMetadata_from_pyreadstat_metadata(name, native)
        IN /\ call' = Call("from_pyreadstat_metadata", name)
           /\ ret' = IF r.err = "" THEN ColumnMetadataObj(r.obj) ELSE None
           /\ err' = r.err
           /\ UNCHANGED <<rvars, col, nsets, meta, native>>

NextNative ==
    \/ FromPyreadstatMetadata

SpecNative == InitNative /\ [][NextNative]_vars

(***************************************************************************)
(* Properties of the native machine                                        *)
(***************************************************************************)
Present(m, name) == DictHas(native[m], name)

\* C4: with name listed and every per-variable entry present, the instance
\* returned by from_pyreadstat_metadata carries the container's label,
\* alignment, measure, widths and value labels for that name, one {low, high}
\* record per native record in order with low = lo and high = hi, and the
\* container's missing user values (None when it has none)
C4_FromNativeFields ==
    (/\ call.op = "from_pyreadstat_metadata"
     /\ IsStr(call.arg)
     /\ ListHas(native.column_names, call.arg)
     /\ \A m \in PerVariable \ {"missing_user_values"} : Present(m, call.arg)) =>
        LET name == call.arg
            c == ret.val
            lohi == DictGet(native.missing_ranges, name, None).val
        IN /\ err = ""
           /\ ret.kind = "ColumnMetadata"
           /\ c.name = name
           /\ c.label = DictGet(native.column_names_to_labels, name, None)
           /\ c.alignment = DictGet(native.variable_alignment, name, None)
           /\ c.measure = DictGet(native.variable_measure, name, None)
           /\ c.display_width = DictGet(native.variable_display_width, name, None)
           /\ c.storage_width = DictGet(native.variable_storage_width, name, None)
           /\ c.value_metadata = DictGet(native.variable_value_labels, name, None)
           /\ IF lohi = <<>> THEN c.missing_range_metadata = None
              ELSE /\ IsList(c.missing_range_metadata)
                   /\ Len(c.missing_range_metadata.val) = Len(lohi)
                   /\ \A i \in DOMAIN lohi :
                        /\ Range(DictKeys(c.missing_range_metadata.val[i]))
                             = {PyStr(s_low), PyStr(s_high)}
                        /\ DictGet(c.missing_range_metadata.val[i], PyStr(s_low), None)
                             = DictGet(lohi[i], PyStr(s_lo), None)
                        /\ DictGet(c.missing_range_metadata.val[i], PyStr(s_high), None)
                             = DictGet(lohi[i], PyStr(s_hi), None)
           /\ c.missing_value_metadata = DictGet(native.missing_user_values, name, None)

\* every entry present, two different native ranges with lo # hi translated
C4_Witness ==
    /\ call.op = "from_pyreadstat_metadata"
    /\ IsStr(call.arg)
    /\ ListHas(native.column_names, call.arg)
    /\ \A m \in PerVariable : Present(m, call.arg)
    /\ err = ""
    /\ ret.kind = "ColumnMetadata"
    /\ IsList(ret.val.missing_range_metadata)
    /\ Len(ret.val.missing_range_metadata.val) = 2
    /\ ret.val.missing_range_metadata.val[1] # ret.val.missing_range_metadata.val[2]
    /\ \E i \in 1..2 :
         DictGet(ret.val.missing_range_metadata.val[i], PyStr(s_low), None)
           # DictGet(ret.val.missing_range_metadata.val[i], PyStr(s_high), None)

\* the field of the instance that each per-variable mapping feeds
FieldOf(m) ==
    CASE m = "column_names_to_labels" -> "label"
      [] m = "variable_alignment" -> "alignment"
      [] m = "variable_measure" -> "measure"
      [] m = "variable_display_width" -> "display_width"
      [] m = "variable_storage_width" -> "storage_width"
      [] m = "variable_value_labels" -> "value_metadata"
      [] m = "missing_ranges" -> "missing_range_metadata"
      [] m = "missing_user_values" -> "missing_value_metadata"

\* C5: from_pyreadstat_metadata does not fail when name is listed but some
\* per-variable mappings have no entry for it: it returns an instance whose
\* omitted fields hold the defaults of a freshly constructed ColumnMetadata
C5_FromNativeOmitted ==
    (/\ call.op = "from_pyreadstat_metadata"
     /\ IsStr(call.arg)
     /\ ListHas(native.column_names, call.arg)) =>
        /\ err = ""
        /\ ret.kind = "ColumnMetadata"
        /\ \A m \in PerVariable :
             ~Present(m, call.arg) => PyEq(ret.val[FieldOf(m)], ColumnMetadata_init[FieldOf(m)])

\* C7: from_pyreadstat_metadata on a valid identifier that the container does
\* not list raises ColumnNameNotFoundError, returns nothing, and leaves the
\* container as it was
C7_ColumnNameNotFound ==
    [][(/\ call'.op = "from_pyreadstat_metadata"
        /\ IsStr(call'.arg)
        /\ IsIdentifier(call'.arg.val)
        /\ \A i \in DOMAIN native.column_names.val : native.column_names.val[i] # call'.arg) =>
           /\ err' = "ColumnNameNotFoundError"
           /\ ret' = None
           /\ native' = native
      ]_vars

\* an unlisted identifier was asked of a container that lists other columns
C7_Witness ==
    /\ call = Call("from_pyreadstat_metadata", PyStr(n_sex))
    /\ native.column_names = PyList(<<PyStr(n_age)>>)
    /\ \A m \in PerVariable : DictHas(native[m], PyStr(n_age))
    /\ err = "ColumnNameNotFoundError"

(***************************************************************************)
(* Metadata                                                                *)
(***************************************************************************)
s_table_name == <<"t", "a", "b", "l", "e", "_", "n", "a", "m", "e">>
s_file_label == <<"f", "i", "l", "e", "_", "l", "a", "b", "e", "l">>
s_file_encoding == <<"f", "i", "l", "e", "_", "e", "n", "c", "o", "d", "i", "n", "g">>
s_columns == <<"c", "o", "l", "u", "m", "n", "s">>
s_rows == <<"r", "o", "w", "s">>
s_column_metadata ==
    <<"c", "o", "l", "u", "m", "n", "_", "m", "e", "t", "a", "d", "a", "t", "a">>
s_notes == <<"n", "o", "t", "e", "s">>
s_utf == <<"u", "t", "f">>

\* '\n'.join(xs) for a sequence of character sequences
RECURSIVE Join(_)
Join(xs) ==
    IF xs = <<>> THEN <<>>
    ELSE IF Len(xs) = 1 THEN xs[1]
    ELSE xs[1] \o <<"\n">> \o Join(Tail(xs))

\* s.split('\n')
RECURSIVE Split(_)
Split(s) ==
    IF \A i \in DOMAIN s : s[i] # "\n" THEN <<s>>
    ELSE LET i == CHOOSE k \in DOMAIN s : s[k] = "\n" /\ \A j \in 1..(k - 1) : s[j] # "\n"
         IN <<SubSeq(s, 1, i - 1)>> \o Split(SubSeq(s, i + 1, Len(s)))

\* Metadata.column_metadata setter, one key: [err, val]
column_metadata_entry(key, value) ==
    LET k == validators_variable_name(key, FALSE)
    IN IF k.err # "" THEN Raise(k.err)
       ELSE IF is_type(value, "ColumnMetadata") THEN Ok(value)
       ELSE Raise("KeyError")   \* ColumnMetadata.from_dict(result[key]): result has no such key

set_column_metadata(obj, value) ==
    LET v == validators_dict(value, TRUE)
    IN IF v.err # "" THEN Failed(obj, v.err)
       ELSE IF Falsy(v.val) THEN Stored(obj, "column_metadata", None)
       ELSE LET items == v.val.val
                rs == [i \in DOMAIN items |-> column_metadata_entry(items[i][1], items[i][2])]
                bad == FirstErr(rs)
            IN IF bad # 0 THEN Failed(obj, rs[bad].err)
               ELSE Stored(obj, "column_metadata",
                           PyDict([i \in DOMAIN items |-> <<items[i][1], rs[i].val>>]))

set_file_encoding(obj, value) ==
    LET v == validators_string(value, TRUE)
    IN IF v.err # "" THEN Failed(obj, v.err) ELSE Stored(obj, "file_encoding", v.val)

set_notes(obj, value) ==
    IF is_iterable(value) /\ \E i \in DOMAIN Iterate(value) : ~IsStr(Iterate(value)[i])
    THEN Failed(obj, "TypeError")
    ELSE LET joined == IF is_iterable(value)
                       THEN PyStr(Join([i \in DOMAIN Iterate(value) |-> Iterate(value)[i].val]))
                       ELSE value
             v == validators_string(joined, TRUE)
         IN IF v.err # "" THEN Failed(obj, v.err) ELSE Stored(obj, "notes", v.val)

set_table_name(obj, value) ==
    LET v == validators_variable_name(value, TRUE)
    IN IF v.err # "" THEN Failed(obj, v.err) ELSE Stored(obj, "table_name", v.val)

set_file_label(obj, value) ==
    LET v == validators_string(value, TRUE)
    IN IF v.err # "" THEN Failed(obj, v.err) ELSE Stored(obj, "file_label", v.val)

set_rows(obj, value) ==
    LET v == validators_integer(value, FALSE, TRUE, 0)
    IN IF v.err # "" THEN Failed(obj, v.err) ELSE Stored(obj, "rows", v.val)

\* Metadata.columns
columns(obj) ==
    IF Falsy(obj.column_metadata) THEN 0 ELSE Len(obj.column_metadata.val)

\* setattr on a Metadata instance
metadata_setattr(obj, f, value) ==
    CASE f = "column_metadata" -> set_column_metadata(obj, value)
      [] f = "file_encoding" -> set_file_encoding(obj, value)
      [] f = "notes" -> set_notes(obj, value)
      [] f = "table_name" -> set_table_name(obj, value)
      [] f = "file_label" -> set_file_label(obj, value)
      [] f = "rows" -> set_rows(obj, value)

RECURSIVE metadata_assign_all(_, _, _)
metadata_assign_all(i, obj, pairs) ==
    IF i > Len(pairs) THEN [err |-> "", obj |-> obj]
    ELSE LET r == metadata_setattr(obj, pairs[i][1], pairs[i][2])
         IN IF r.err # "" THEN [err |-> r.err, obj |-> obj]
            ELSE metadata_assign_all(i + 1, r.obj, pairs)

\* Metadata.from_dict reading table_name under the key of file_label
Metadata_from_dict_wrong_key(as_dict) ==
    LET instance == Metadata_init
    IN metadata_assign_all(1, instance,
         << <<"notes", DictGet(as_dict, PyStr(s_notes), instance.notes)>>,
            <<"table_name", DictGet(as_dict, PyStr(s_file_label), instance.table_name)>>,
            <<"file_label", DictGet(as_dict, PyStr(s_file_label), instance.file_label)>>,
            <<"rows", DictGet(as_dict, PyStr(s_rows), instance.rows)>>,
            <<"file_encoding", DictGet(as_dict, PyStr(s_file_encoding), instance.file_encoding)>>,
            <<"column_metadata",
              DictGet(as_dict, PyStr(s_column_metadata), instance.column_metadata)>> >>)

\* Metadata.from_dict(as_dict): [err, obj]
Metadata_from_dict(as_dict) ==
    LET instance == Metadata_init
    IN metadata_assign_all(1, instance,
         << <<"notes", DictGet(as_dict, PyStr(s_notes), instance.notes)>>,
            <<"table_name", DictGet(as_dict, PyStr(s_table_name), instance.table_name)>>,
            <<"file_label", DictGet(as_dict, PyStr(s_file_label), instance.file_label)>>,
            <<"rows", DictGet(as_dict, PyStr(s_rows), instance.rows)>>,
            <<"file_encoding", DictGet(as_dict, PyStr(s_file_encoding), instance.file_encoding)>>,
            <<"column_metadata",
              DictGet(as_dict, PyStr(s_column_metadata), instance.column_metadata)>> >>)

\* Metadata.to_dict
Metadata_to_dict(self) ==
    PyDict(<< <<PyStr(s_table_name), self.table_name>>,
              <<PyStr(s_file_label), self.file_label>>,
              <<PyStr(s_file_encoding), self.file_encoding>>,
              <<PyStr(s_columns), PyInt(columns(self))>>,
              <<PyStr(s_rows), self.rows>>,
              <<PyStr(s_column_metadata), self.column_metadata>>,
              <<PyStr(s_notes), self.notes>> >>)

\* {x: ColumnMetadata.from_pyreadstat_metadata(x, as_metadata) for x in names}:
\* [err, val], the first column that raises ending the comprehension
RECURSIVE columns_from_native(_, _, _)
columns_from_native(names, as_metadata, acc) ==
    IF names = <<>> THEN Ok(acc)
    ELSE LET r == ColumnMetadata_from_pyreadstat_metadata(names[1], as_metadata)
         IN IF r.err # "" THEN Raise(r.err)
            ELSE columns_from_native(Tail(names), as_metadata,
                                     DictSet(acc, names[1], ColumnMetadataObj(r.obj)))

\* Metadata.from_pyreadstat(as_metadata): [err, obj]
Metadata_from_pyreadstat(as_metadata) ==
    LET scalars == metadata_assign_all(1, Metadata_init,
                      << <<"notes", as_metadata.notes>>,
                         <<"table_name", as_metadata.table_name>>,
                         <<"file_label", as_metadata.file_label>>,
                         <<"rows", as_metadata.number_rows>>,
                         <<"file_encoding", as_metadata.file_encoding>> >>)
        column_metadata == columns_from_native(as_metadata.column_names.val, as_metadata,
                                               PyDict(<<>>))
    IN IF scalars.err # "" THEN scalars
       ELSE IF column_metadata.err # "" THEN [err |-> column_metadata.err, obj |-> scalars.obj]
       ELSE set_column_metadata(scalars.obj, column_metadata.val)

\* the loop of to_pyreadstat over the items of column_metadata
RECURSIVE add_all(_, _)
add_all(items, as_metadata) ==
    IF items = <<>> THEN as_metadata
    ELSE add_all(Tail(items), ColumnMetadata_add_to_pyreadstat(items[1][2].val, as_metadata))

\* Metadata.to_pyreadstat(): [err, val]
Metadata_to_pyreadstat(self) ==
    LET notes == IF ~Falsy(self.notes) /\ Len(Split(self.notes.val)) > 1
                 THEN PyStr(<<self.notes.val[1]>>)
                 ELSE self.notes
        as_metadata == [metadata_container EXCEPT
                          !.table_name = self.table_name,
                          !.file_label = self.file_label,
                          !.file_encoding = self.file_encoding,
                          !.notes = notes,
                          !.rows = self.rows]
    IN IF ~IsDict(self.column_metadata)
       THEN [err |-> "TypeError", val |-> as_metadata]   \* for column in None
       ELSE [err |-> "", val |-> add_all(self.column_metadata.val, as_metadata)]

(***************************************************************************)
(* The Metadata machine: one instance, its constructor and setters, the    *)
(* mapping round trip, to_pyreadstat and the native round trip             *)
(***************************************************************************)
\* ColumnMetadata instances built by the constructor from keyword arguments
FullColumn(name) ==
    ColumnMetadata_new(
        << <<"name", PyStr(name)>>, <<"label", PyStr(l_Age)>>,
           <<"alignment", PyStr(<<"R", "i", "g", "h", "t">>)>>, <<"measure", PyStr(s_scale)>>,
           <<"display_width", PyInt(MaxWidth)>>, <<"storage_width", PyInt(0)>>,
           <<"value_metadata", PyDict(<< <<PyInt(1), PyStr(l_Yes)>> >>)>>,
           <<"missing_range_metadata", PyList(<<RangeRecord(0, MaxBound)>>)>>,
           <<"missing_value_metadata", PyList(<<PyStr(<<"a">>)>>)>> >>).obj
WidthsColumn(name) ==
    ColumnMetadata_new(
        << <<"name", PyStr(name)>>, <<"display_width", PyInt(0)>>,
           <<"storage_width", PyInt(MaxWidth)>> >>).obj

\* column_metadata mappings: under each key an instance of that name; also
\* a mapping whose value is a plain mapping, one with an invalid key, and one
\* whose first key holds an instance that carries the name of the second
InstancesFor(key) ==
    {ColumnMetadataObj(FullColumn(key.val)), ColumnMetadataObj(WidthsColumn(key.val))}

KeyLists ==
    DistinctSeqs({PyStr(n_age), PyStr(n_sex)}, MaxColumns)

ColumnMetadataInputs ==
    {None, PyInt(1),
     PyDict(<< <<PyStr(n_age), ColumnMetadata_to_dict(FullColumn(n_age))>> >>),
     PyDict(<< <<PyStr(n_1a), ColumnMetadataObj(FullColumn(n_age))>> >>),
     PyDict(<< <<PyStr(n_age), ColumnMetadataObj(WidthsColumn(n_sex))>>,
               <<PyStr(n_sex), ColumnMetadataObj(WidthsColumn(n_sex))>> >>)}
    \cup UNION {{PyDict([i \in DOMAIN ks |-> <<ks[i], vs[i]>>]) :
                    vs \in {f \in [DOMAIN ks -> UNION {InstancesFor(k) : k \in Range(ks)}] :
                               \A i \in DOMAIN ks : f[i] \in InstancesFor(ks[i])}} :
                ks \in KeyLists}

\* notes: a list of lines (which the setter joins), or one string
LineInputs == {<<>>, <<"a">>, <<"a", "b">>}
NotesInputs ==
    {None, PyInt(1), PyList(<<PyInt(1)>>), PyStr(<<"a", "b">>), PyStr(<<"a", "\n", "b">>)}
    \cup {PyList([i \in DOMAIN ls |-> PyStr(ls[i])]) : ls \in SeqsUpTo(LineInputs, MaxLines)}
FileEncodingInputs == {None, PyStr(s_utf), PyInt(1)}
RowsInputs == {None, PyStr(<<"x">>)} \cup {PyInt(i) : i \in -1..MaxRows}

InitMetadata ==
    /\ ncalls = 0 /\ reads = 0 /\ parses = 0 /\ writes = 0
    /\ created = 0 /\ ondisk = 0 /\ out = None
    /\ heap = <<>> /\ other = Metadata_init
    /\ meta = Metadata_init
    /\ nsets = 0
    /\ col = ColumnMetadata_init
    /\ native = metadata_container
    /\ call = Call("Metadata", None)
    /\ ret = MetadataObj(Metadata_init)
    /\ err = ""

\* Metadata()
NewMetadata ==
    /\ meta' = Metadata_init
    /\ nsets' = 0
    /\ call' = Call("Metadata", None)
    /\ ret' = MetadataObj(Metadata_init)
    /\ err' = ""
    /\ UNCHANGED <<rvars, col, native>>

\* metadata.<f> = value
MetadataAssign(f, value) ==
    /\ nsets < MaxMetaSets
    /\ LET r == metadata_setattr(meta, f, value)
       IN /\ meta' = r.obj
          /\ err' = r.err
    /\ nsets' = nsets + 1
    /\ call' = Call(f, value)
    /\ ret' = None
    /\ UNCHANGED <<rvars, col, native>>

SetColumnMetadata == \E v \in ColumnMetadataInputs : MetadataAssign("column_metadata", v)
SetFileEncoding == \E v \in FileEncodingInputs : MetadataAssign("file_encoding", v)
SetNotes == \E v \in NotesInputs : MetadataAssign("notes", v)
SetTableName == \E v \in NameInputs : MetadataAssign("table_name", v)
SetFileLabel == \E v \in LabelInputs : MetadataAssign("file_label", v)
SetRows == \E v \in RowsInputs : MetadataAssign("rows", v)

\* Metadata.from_dict(metadata.to_dict())
MetadataRoundTrip ==
    /\ LET r == Metadata_from_dict(Metadata_to_dict(meta))
       IN /\ ret' = IF r.err = "" THEN MetadataObj(r.obj) ELSE None
          /\ err' = r.err
    /\ call' = Call("Metadata.from_dict(to_dict)", None)
    /\ UNCHANGED <<rvars, meta, nsets, col, native>>

\* metadata.to_pyreadstat()
ToPyreadstat ==
    /\ LET r == Metadata_to_pyreadstat(meta)
       IN /\ ret' = IF r.err = "" THEN ContainerObj(r.val) ELSE None
          /\ err' = r.err
    /\ call' = Call("to_pyreadstat", None)
    /\ UNCHANGED <<rvars, meta, nsets, col, native>>

\* Metadata.from_pyreadstat(metadata.to_pyreadstat())
NativeRoundTrip ==
    /\ \E n \in {Metadata_to_pyreadstat(meta)} :
       \E r \in {IF n.err # "" THEN [err |-> n.err, obj |-> Metadata_init]
                 ELSE Metadata_from_pyreadstat(n.val)} :
          /\ ret' = IF r.err = "" THEN MetadataObj(r.obj) ELSE None
          /\ err' = r.err
    /\ call' = Call("from_pyreadstat(to_pyreadstat)", None)
    /\ UNCHANGED <<rvars, meta, nsets, col, native>>

NextMetadata ==
    \/ NewMetadata
    \/ SetColumnMetadata
    \/ SetFileEncoding
    \/ SetNotes
    \/ SetTableName
    \/ SetFileLabel
    \/ SetRows
    \/ MetadataRoundTrip
    \/ ToPyreadstat
    \/ NativeRoundTrip

SpecMetadata == InitMetadata /\ [][NextMetadata]_vars

(***************************************************************************)
(* The adding machine: one native container, and ColumnMetadata instances  *)
(* added to it one after the other with add_to_pyreadstat                  *)
(***************************************************************************)
\* the instances added: every name with every label, and one with all fields
AddInputs ==
    {ColumnMetadata_new(<< <<"name", n>>, <<"label", l>>, <<"display_width", PyInt(0)>>,
                           <<"storage_width", PyInt(1)>> >>).obj :
        n \in {None, PyStr(n_age), PyStr(n_sex)}, l \in {None, PyStr(l_Age), PyStr(l_Yes)}}
    \cup {FullColumn(n_age)}

\* the containers the calls start from: a new one, and ones the codec filled
StartContainers ==
    {metadata_container}
    \cup {NativeFor(names, PerVariable, 0, PyList(<<>>)) : names \in ColumnNameLists}

InitAdd ==
    /\ ncalls = 0 /\ reads = 0 /\ parses = 0 /\ writes = 0
    /\ created = 0 /\ ondisk = 0 /\ out = None
    /\ heap = <<>> /\ other = Metadata_init
    /\ native \in StartContainers
    /\ col = ColumnMetadata_init
    /\ nsets = 0
    /\ meta = Metadata_init
    /\ call = Call("metadata_container", None)
    /\ ret = None
    /\ err = ""

\* ret = column.add_to_pyreadstat(native): the container is changed in place
\* and is what the call returns
AddToPyreadstat ==
    \E c \in AddInputs :
        /\ native' = ColumnMetadata_add_to_pyreadstat(c, native)
        /\ ret' = ContainerObj(native')
        /\ col' = c
        /\ call' = Call("add_to_pyreadstat", ColumnMetadataObj(c))
        /\ err' = ""
        /\ UNCHANGED <<nsets, meta, ncalls, reads, parses, writes, created, ondisk, out,
                       heap, other>>

SpecAdd == InitAdd /\ [][AddToPyreadstat]_vars

\* the name and label lists have the same length and no name is listed twice
ListsAligned(p) ==
    /\ Len(p.column_names.val) = Len(p.column_labels.val)
    /\ \A i, j \in DOMAIN p.column_names.val :
          i # j => p.column_names.val[i] # p.column_names.val[j]

\* C24: from a container whose name and label lists have equal length and no
\* duplicate name, every add_to_pyreadstat call keeps both properties: a name
\* not yet listed is appended to both lists, a name already listed has its
\* label overwritten at its index and no name moves, and the call returns the
\* container it was given
C24_AddKeepsLists ==
    /\ [](ListsAligned(native))
    /\ [][LET names == native.column_names.val
              labels == native.column_labels.val
          IN /\ ret' = ContainerObj(native')
             /\ IF \E i \in DOMAIN names : names[i] = col'.name
                THEN /\ native'.column_names.val = names
                     /\ \A i \in DOMAIN names :
                           native'.column_labels.val[i] =
                              IF names[i] = col'.name THEN col'.label ELSE labels[i]
                ELSE /\ native'.column_names.val = Append(names, col'.name)
                     /\ native'.column_labels.val = Append(labels, col'.label)]_vars

\* C30: after add_to_pyreadstat of an instance, also one whose alignment and
\* measure still hold their defaults, the container's alignment and measure
\* entries of that variable are words of the lowercase vocabularies, and
\* from_pyreadstat_metadata accepts the container for that variable
C30_NativeVocabulary ==
    call.op = "add_to_pyreadstat" =>
        /\ \E w \in VariableAlignmentEnum :
              DictGet(native.variable_alignment, col.name, None) = PyStr(w)
        /\ \E w \in VariableMeasureEnum :
              DictGet(native.variable_measure, col.name, None) = PyStr(w)
        /\ ColumnMetadata_from_pyreadstat_metadata(col.name, native).err = ""

\* a call overwrote the label of a listed name, and another appended a name
C24_Witness ==
    /\ call.op = "add_to_pyreadstat"
    /\ Len(native.column_names.val) = 3
    /\ native.column_names.val[1] = col.name
    /\ native.column_labels.val[1] = PyStr(l_Yes)

(***************************************************************************)
(* The sharing machine: two Metadata instances and the ColumnMetadata      *)
(* instances their column_metadata mappings refer to. meta is built from   *)
(* two instances; other is made from meta and then changed by the caller   *)
(***************************************************************************)
\* a reference to the ColumnMetadata instance at an address of the heap
Ref(addr) == [kind |-> "ColumnMetadata", val |-> addr]

\* the columns of a Metadata as the caller sees them: each key with the
\* fields of the instance it refers to
Columns(m, h) ==
    IF IsDict(m.column_metadata)
    THEN [i \in DOMAIN m.column_metadata.val |->
            <<m.column_metadata.val[i][1], h[m.column_metadata.val[i][2].val]>>]
    ELSE <<>>

InitShare ==
    /\ ncalls = 0 /\ reads = 0 /\ parses = 0 /\ writes = 0
    /\ created = 0 /\ ondisk = 0 /\ out = None
    /\ heap = <<WidthsColumn(n_age), WidthsColumn(n_sex)>>
    /\ meta = set_column_metadata(Metadata_init,
                  PyDict(<< <<PyStr(n_age), Ref(1)>>, <<PyStr(n_sex), Ref(2)>> >>)).obj
    /\ other = Metadata_init
    /\ nsets = 0
    /\ col = ColumnMetadata_init
    /\ native = metadata_container
    /\ call = Call("column_metadata", None)
    /\ ret = None
    /\ err = ""

\* other = Metadata.from_dict(meta.to_dict())
CopyFromDict ==
    /\ \E r \in {Metadata_from_dict(Metadata_to_dict(meta))} :
          /\ other' = IF r.err = "" THEN r.obj ELSE other
          /\ err' = r.err
    /\ call' = Call("other = Metadata.from_dict(to_dict)", None)
    /\ ret' = None
    /\ UNCHANGED <<col, nsets, meta, native, ncalls, reads, parses, writes, created, ondisk,
                   out, heap>>

\* other.column_metadata = {k: meta.column_metadata[k] for k in keys}
AssignColumns ==
    \E keys \in SUBSET Range(DictKeys(meta.column_metadata)) :
    \E r \in {metadata_setattr(other, "column_metadata",
                  PyDict(SelectSeq(meta.column_metadata.val, LAMBDA item : item[1] \in keys)))} :
        /\ other' = r.obj
        /\ err' = r.err
        /\ call' = Call("other.column_metadata", keys)
        /\ ret' = None
        /\ UNCHANGED <<col, nsets, meta, native, ncalls, reads, parses, writes, created,
                       ondisk, out, heap>>

\* other.column_metadata[key].<f> = value
SetColumnField ==
    /\ IsDict(other.column_metadata)
    /\ \E i \in DOMAIN other.column_metadata.val :
       \E fv \in ({"label"} \X LabelInputs) \cup ({"display_width"} \X WidthInputs) :
       \E r \in {setattr(heap[other.column_metadata.val[i][2].val], fv[1], fv[2])} :
          /\ heap' = [heap EXCEPT ![other.column_metadata.val[i][2].val] = r.obj]
          /\ err' = r.err
          /\ call' = Call("other.column.setattr", <<other.column_metadata.val[i][1], fv>>)
          /\ ret' = None
    /\ UNCHANGED <<col, nsets, meta, native, ncalls, reads, parses, writes, created, ondisk,
                   out, other>>

\* other.column_metadata.pop(key)
RemoveColumn ==
    /\ IsDict(other.column_metadata)
    /\ \E i \in DOMAIN other.column_metadata.val :
          /\ other' = [other EXCEPT !.column_metadata =
                          DictRemove(@, other.column_metadata.val[i][1])]
          /\ call' = Call("other.column_metadata.pop", other.column_metadata.val[i][1])
          /\ ret' = Ref(other.column_metadata.val[i][2].val)
    /\ err' = ""
    /\ UNCHANGED <<col, nsets, meta, native, ncalls, reads, parses, writes, created, ondisk,
                   out, heap>>

NextShare ==
    \/ CopyFromDict
    \/ AssignColumns
    \/ SetColumnField
    \/ RemoveColumn

SpecShare == InitShare /\ [][NextShare]_vars

\* C23: changing a field of a column of other, or removing a column from
\* other, leaves the columns of meta as they were, whether other was made by
\* Metadata.from_dict(meta.to_dict()) or was assigned a mapping taken from meta
C23_NoSharing ==
    [][call'.op \in {"other.column.setattr", "other.column_metadata.pop"} =>
          Columns(meta', heap') = Columns(meta, heap)]_vars

\* C29: to_pyreadstat() on a Metadata whose column_metadata is None succeeds
\* and returns a container with an empty column-name list and the table
\* name, file label and file encoding of the Metadata
C29_NoColumnsToNative ==
    (call.op = "to_pyreadstat" /\ IsNone(meta.column_metadata)) =>
        /\ err = ""
        /\ ret.val.column_names = PyList(<<>>)
        /\ ret.val.table_name = meta.table_name
        /\ ret.val.file_label = meta.file_label
        /\ ret.val.file_encoding = meta.file_encoding

\* C21: after to_pyreadstat() returned, the container's column_names is the
\* sequence of keys of column_metadata in insertion order, and column_labels
\* has the same length and holds, at each index, the label of that column
C21_NativeColumnOrder ==
    (call.op = "to_pyreadstat" /\ err = "") =>
        /\ ret.val.column_names = PyList(DictKeys(meta.column_metadata))
        /\ Len(ret.val.column_labels.val) = Len(ret.val.column_names.val)
        /\ \A i \in DOMAIN meta.column_metadata.val :
              ret.val.column_labels.val[i] = meta.column_metadata.val[i][2].val.label

\* C20: assigning column_metadata a non-empty mapping from variable names to
\* ColumnMetadata instances or plain mappings succeeds and stores, under each
\* key, the instance itself or the instance ColumnMetadata.from_dict makes
\* of the plain mapping
C20_ColumnMappingValues ==
    (/\ call.op = "column_metadata" /\ IsDict(call.arg) /\ call.arg.val # <<>>
     /\ \A i \in DOMAIN call.arg.val :
           /\ validators_variable_name(call.arg.val[i][1], FALSE).err = ""
           /\ call.arg.val[i][2].kind \in {"ColumnMetadata", "dict"}) =>
        /\ err = ""
        /\ meta.column_metadata =
             PyDict([i \in DOMAIN call.arg.val |->
                       <<call.arg.val[i][1],
                         IF is_type(call.arg.val[i][2], "ColumnMetadata")
                         THEN call.arg.val[i][2]
                         ELSE ColumnMetadataObj(
                                  ColumnMetadata_from_dict(call.arg.val[i][2]).obj)>>])

(***************************************************************************)
(* Properties of the Metadata machine                                      *)
(***************************************************************************)
\* notes hold at most one line
SingleLine(notes) == IsNone(notes) \/ \A i \in DOMAIN notes.val : notes.val[i] # "\n"

\* the text before the first newline
FirstLine(cs) ==
    IF \A i \in DOMAIN cs : cs[i] # "\n" THEN cs
    ELSE SubSeq(cs, 1, (CHOOSE k \in DOMAIN cs :
                           cs[k] = "\n" /\ \A j \in 1..(k - 1) : cs[j] # "\n") - 1)

ItemsOf(d) == IF IsDict(d) THEN d.val ELSE <<>>

\* same keys in the same order, and equal ColumnMetadata under each key
SameColumns(a, b) ==
    /\ Len(ItemsOf(a)) = Len(ItemsOf(b))
    /\ \A i \in DOMAIN ItemsOf(a) :
         /\ ItemsOf(a)[i][1] = ItemsOf(b)[i][1]
         /\ ItemsOf(b)[i][2].kind = "ColumnMetadata"
         /\ ColumnEq(ItemsOf(a)[i][2].val, ItemsOf(b)[i][2].val)

\* C2: for a Metadata m with single-line notes, from_dict(m.to_dict())
\* succeeds and reproduces table_name, file_label, file_encoding, notes, rows
\* and the column_metadata mapping (same keys, same order, equal values;
\* absent when m's is absent)
C2_MetadataRoundTrip ==
    (call.op = "Metadata.from_dict(to_dict)" /\ SingleLine(meta.notes)) =>
        /\ err = ""
        /\ ret.kind = "Metadata"
        /\ ret.val.table_name = meta.table_name
        /\ ret.val.file_label = meta.file_label
        /\ ret.val.file_encoding = meta.file_encoding
        /\ ret.val.notes = meta.notes
        /\ ret.val.rows = meta.rows
        /\ SameColumns(meta.column_metadata, ret.val.column_metadata)
        /\ IsNone(meta.column_metadata) => IsNone(ret.val.column_metadata)

\* a Metadata with a table name and two columns went through the round trip
C2_Witness ==
    /\ call.op = "Metadata.from_dict(to_dict)"
    /\ err = ""
    /\ ~IsNone(meta.table_name)
    /\ columns(meta) = 2
    /\ ret.kind = "Metadata"
    /\ columns(ret.val) = 2

\* C3: for a Metadata m with at least one column and single-line notes,
\* from_pyreadstat(m.to_pyreadstat()) succeeds and reproduces table_name,
\* file_label, file_encoding, notes, rows and every column's fields
C3_NativeRoundTrip ==
    (/\ call.op = "from_pyreadstat(to_pyreadstat)"
     /\ columns(meta) >= 1
     /\ SingleLine(meta.notes)) =>
        /\ err = ""
        /\ ret.kind = "Metadata"
        /\ ret.val.table_name = meta.table_name
        /\ ret.val.file_label = meta.file_label
        /\ ret.val.file_encoding = meta.file_encoding
        /\ ret.val.notes = meta.notes
        /\ ret.val.rows = meta.rows
        /\ SameColumns(meta.column_metadata, ret.val.column_metadata)

\* C6: to_pyreadstat sets the native notes to the first line of notes, and
\* copies single-line notes unchanged
C6_NotesFirstLine ==
    (call.op = "to_pyreadstat" /\ err = "") =>
        ret.val.notes = IF IsNone(meta.notes) THEN None ELSE PyStr(FirstLine(meta.notes.val))

(***************************************************************************)
(* read.py                                                                 *)
(***************************************************************************)
s_records == <<"r", "e", "c", "o", "r", "d", "s">>
s_table == <<"t", "a", "b", "l", "e">>
s_bogus == <<"b", "o", "g", "u", "s">>

\* sources and targets: a path (val: a file exists there), bytes, buffers
Path(exists) == [kind |-> "path", val |-> exists]
Bytes == [kind |-> "bytes", val |-> 0]
\* byte buffers: the one the caller made (empty), one a function made, and a
\* buffer after buffer.write(content)
BytesIO == [kind |-> "BytesIO", val |-> [id |-> "caller", content |-> <<>>]]
NewBytesIO(content) == [kind |-> "BytesIO", val |-> [id |-> "new", content |-> content]]
Unwritten(buffer, content) == buffer
Written(buffer, content) == [buffer EXCEPT !.val.content = content]
StringIO == [kind |-> "StringIO", val |-> 0]
ExcelWriter == [kind |-> "ExcelWriter", val |-> 0]

\* checkers.is_file / is_pathlike / is_bytesIO / is_stringIO
is_file(v) == v.kind = "path" /\ v.val
is_pathlike(v) == v.kind = "path"
is_bytesIO(v) == v.kind = "BytesIO"
is_stringIO(v) == v.kind = "StringIO"

\* the dataset every source of the model holds: its columns and record count
FileColumns == <<PyStr(n_age), PyStr(n_sex)>>

\* the container pyreadstat.read_sav returns for the columns read: every
\* column has a label, an alignment, a measure and widths; age has value
\* labels and a missing range
CodecMetadata(names, nrows) ==
    LET each(v) == PyDict([i \in DOMAIN names |-> <<names[i], v>>])
        age(v) == PyDict(SelectSeq([i \in DOMAIN names |-> <<names[i], v>>],
                                   LAMBDA item : item[1] = PyStr(n_age)))
    IN [metadata_container EXCEPT
          !.column_names = PyList(names),
          !.column_labels = PyList([i \in DOMAIN names |-> PyStr(l_Age)]),
          !.column_names_to_labels = each(PyStr(l_Age)),
          !.variable_alignment = each(PyStr(s_right)),
          !.variable_measure = each(PyStr(s_scale)),
          !.variable_display_width = each(PyInt(MaxWidth)),
          !.variable_storage_width = each(PyInt(MaxWidth)),
          !.variable_value_labels = age(PyDict(<< <<PyInt(1), PyStr(l_Yes)>> >>)),
          !.missing_ranges = age(PyList(<<NativeRange(0, MaxBound)>>)),
          !.notes = PyList(<<>>),
          !.number_rows = PyInt(nrows)]

Min(a, b) == IF a < b THEN a ELSE b
Max(a, b) == IF a > b THEN a ELSE b

\* pyreadstat.read_sav(path, usecols, row_limit, row_offset, metadataonly):
\* [df, meta]; row_limit 0 reads every record after the offset
read_sav(usecols, row_limit, row_offset, metadataonly) ==
    LET names == IF IsNone(usecols) THEN FileColumns
                 ELSE SelectSeq(FileColumns, LAMBDA c : ListHas(usecols, c))
        after == Max(FileRows - row_offset, 0)
        nrows == IF row_limit = 0 THEN after ELSE Min(row_limit, after)
    IN [df |-> [columns |-> names, rows |-> IF metadataonly THEN 0 ELSE nrows],
        meta |-> CodecMetadata(names, nrows)]

\* [validators.string(x) for x in variables]: the first error, "" if none
strings_err(variables) ==
    LET rs == [i \in DOMAIN variables.val |-> validators_string(variables.val[i], FALSE)]
    IN IF FirstErr(rs) = 0 THEN "" ELSE rs[FirstErr(rs)].err

\* an exclusion that leaves column_metadata as it was
pop_nothing(d, variables) == d

RECURSIVE pop_all(_, _)
pop_all(d, variables) ==
    IF variables = <<>> THEN d ELSE pop_all(DictRemove(d, variables[1]), Tail(variables))

\* what a call does to the world besides returning: codec reads made,
\* scratch files created and scratch files left on disk
Effect(r, c, p) == [reads |-> r, created |-> c, ondisk |-> p]
NoDf == [columns |-> <<>>, rows |-> 0]
ReadFailed(e, eff) == [err |-> e, df |-> NoDf, metadata |-> Metadata_init, eff |-> eff]

\* _read_spss after the codec has returned: metadata conversion and exclusion
read_spss_finish(result, exclude_variables, eff) ==
    LET metadata == Metadata_from_pyreadstat(result.meta)
        excluded == IF Falsy(exclude_variables) THEN <<>> ELSE exclude_variables.val
    IN IF metadata.err # "" THEN ReadFailed(metadata.err, eff)
       ELSE IF \E i \in DOMAIN excluded :
                  \A j \in DOMAIN result.df.columns : result.df.columns[j] # excluded[i]
       THEN ReadFailed("KeyError", eff)   \* df.drop of a missing label
       ELSE [err |-> "",
             df |-> [result.df EXCEPT !.columns =
                        SelectSeq(@, LAMBDA c : \A i \in DOMAIN excluded : excluded[i] # c)],
             metadata |->
                 IF ~Falsy(metadata.obj.column_metadata)
                 THEN [metadata.obj EXCEPT !.column_metadata = pop_all(@, excluded)]
                 ELSE metadata.obj,
             eff |-> eff]

\* _read_spss(data, limit, offset, exclude_variables, include_variables,
\* metadata_only); codec_ok says whether pyreadstat.read_sav returns or raises
read_spss(data, limit, offset, exclude_variables, include_variables, metadata_only, codec_ok) ==
    LET lim == validators_integer(limit, TRUE, TRUE, 0)
        off == validators_integer(offset, FALSE, TRUE, 0)
        exc == validators_iterable(exclude_variables, TRUE)
        inc == validators_iterable(include_variables, TRUE)
        result == read_sav(inc.val, IF Falsy(lim.val) THEN 0 ELSE lim.val.val, off.val.val,
                           metadata_only)
    IN IF ~(is_file(data) \/ is_bytesIO(data) \/ is_type(data, "bytes"))
       THEN ReadFailed("InvalidDataFormatError", Effect(0, 0, 0))
       ELSE IF lim.err # "" THEN ReadFailed(lim.err, Effect(0, 0, 0))
       ELSE IF off.err # "" THEN ReadFailed(off.err, Effect(0, 0, 0))
       ELSE IF exc.err # "" THEN ReadFailed(exc.err, Effect(0, 0, 0))
       ELSE IF ~Falsy(exc.val) /\ strings_err(exc.val) # ""
       THEN ReadFailed(strings_err(exc.val), Effect(0, 0, 0))
       ELSE IF inc.err # "" THEN ReadFailed(inc.err, Effect(0, 0, 0))
       ELSE IF ~Falsy(inc.val) /\ strings_err(inc.val) # ""
       THEN ReadFailed(strings_err(inc.val), Effect(0, 0, 0))
       ELSE IF ~is_file(data)
       THEN IF ~is_type(data, "bytes")
            THEN ReadFailed("TypeError", Effect(0, 1, 1))      \* temp_file.write(data)
            ELSE IF ~codec_ok
            THEN ReadFailed("ReadstatError", Effect(1, 1, 1))  \* os.remove not reached
            ELSE read_spss_finish(result, exc.val, Effect(1, 1, 0))
       ELSE IF ~codec_ok
       THEN ReadFailed("ReadstatError", Effect(1, 0, 0))
       ELSE read_spss_finish(result, exc.val, Effect(1, 0, 0))

\* the (DataFrame, Metadata) pair _read_spss returns
Pair(df, metadata) ==
    [kind |-> "tuple",
     val |-> [df |-> [kind |-> "DataFrame", val |-> df], metadata |-> MetadataObj(metadata)]]

\* df.to_json(None, orient = layout): the text
JsonText(df, layout) ==
    [kind |-> "str", val |-> <<"json", layout.val, df.columns, df.rows>>]
\* yaml.dump(json.loads(as_json)): the text
YamlText(df, layout) ==
    [kind |-> "str", val |-> <<"yaml", layout.val, df.columns, df.rows>>]

Returned(v, written, eff) == [err |-> "", ret |-> v, out |-> written, eff |-> eff]
Raised(e, eff) == [err |-> e, ret |-> None, out |-> None, eff |-> eff]
LayoutValues == {PyStr(s_records), PyStr(s_table)}

\* to_dataframe(data, limit, offset, exclude_variables, include_variables,
\* metadata_only): _read_spss with the same arguments
to_dataframe(data, limit, offset, exclude_variables, include_variables, metadata_only, codec_ok) ==
    LET r == read_spss(data, limit, offset, exclude_variables, include_variables,
                       metadata_only, codec_ok)
    IN IF r.err # "" THEN Raised(r.err, r.eff)
       ELSE Returned(Pair(r.df, r.metadata), None, r.eff)

\* to_json reading the source before it looks at layout
to_json_read_first(data, target, layout, codec_ok) ==
    LET r == read_spss(data, None, PyInt(0), None, None, FALSE, codec_ok)
    IN IF ~Falsy(target) /\ ~is_pathlike(target) /\ ~is_stringIO(target)
       THEN Raised("InvalidDataFormatError", Effect(0, 0, 0))
       ELSE IF r.err # "" THEN Raised(r.err, r.eff)
       ELSE IF layout \notin LayoutValues THEN Raised("InvalidLayoutError", r.eff)
       ELSE IF ~IsNone(target) THEN Returned(None, JsonText(r.df, layout), r.eff)
       ELSE Returned(JsonText(r.df, layout), None, r.eff)

\* to_json(data, target, layout) with the read options at their defaults
to_json(data, target, layout, codec_ok) ==
    LET r == read_spss(data, None, PyInt(0), None, None, FALSE, codec_ok)
    IN IF ~Falsy(target) /\ ~is_pathlike(target) /\ ~is_stringIO(target)
       THEN Raised("InvalidDataFormatError", Effect(0, 0, 0))
       ELSE IF layout \notin LayoutValues THEN Raised("InvalidLayoutError", Effect(0, 0, 0))
       ELSE IF r.err # "" THEN Raised(r.err, r.eff)
       ELSE IF ~IsNone(target) THEN Returned(None, JsonText(r.df, layout), r.eff)
       ELSE Returned(JsonText(r.df, layout), None, r.eff)

\* to_yaml(data, target, layout) with the read options at their defaults
to_yaml(data, target, layout, codec_ok) ==
    LET r == read_spss(data, None, PyInt(0), None, None, FALSE, codec_ok)
    IN IF ~Falsy(target) /\ ~is_pathlike(target) /\ ~is_stringIO(target)
       THEN Raised("InvalidDataFormatError", Effect(0, 0, 0))
       ELSE IF layout \notin LayoutValues THEN Raised("InvalidLayoutError", Effect(0, 0, 0))
       ELSE IF r.err # "" THEN Raised(r.err, r.eff)
       ELSE IF IsNone(target) THEN Returned(YamlText(r.df, layout), None, r.eff)
       \* open(target, 'wb') of a buffer, or write of a str to a binary file
       ELSE Raised("TypeError", r.eff)

\* df.to_excel(target, ...): the workbook
XlsxData(df) == <<"xlsx", df.columns, df.rows>>

\* to_excel(data, target) with the read and sheet options at their defaults
to_excel(data, target, codec_ok) ==
    LET r == read_spss(data, None, PyInt(0), None, None, FALSE, codec_ok)
    IN IF /\ ~Falsy(target) /\ ~is_pathlike(target) /\ ~is_bytesIO(target)
          /\ ~is_type(target, "ExcelWriter")
       THEN Raised("InvalidDataFormatError", Effect(0, 0, 0))
       ELSE IF r.err # "" THEN Raised(r.err, r.eff)
       \* target = BytesIO(): the workbook goes to a buffer of to_excel's own
       ELSE IF Falsy(target) \/ is_bytesIO(target)
       THEN Returned(NewBytesIO(XlsxData(r.df)), None, r.eff)
       ELSE Returned(None, XlsxData(r.df), r.eff)

\* json.loads(as_json): the parsed value
Parsed(text) == [kind |-> IF text.val[2] = s_records THEN "list" ELSE "dict", val |-> text.val]

\* to_dict(data, layout) with the read options at their defaults
to_dict(data, layout, codec_ok) ==
    LET as_json == to_json(data, None, layout, codec_ok)
    IN IF layout \notin LayoutValues THEN Raised("InvalidLayoutError", Effect(0, 0, 0))
       ELSE IF as_json.err # "" THEN as_json
       ELSE Returned(Parsed(as_json.ret), None, as_json.eff)

(***************************************************************************)
(* The reader machine: calls of to_json, to_yaml, to_dict, to_excel and    *)
(* to_dataframe, the codec reads they make and the scratch files they      *)
(* create and leave behind                                                 *)
(***************************************************************************)
DataInputs == {Path(TRUE), Path(FALSE), Bytes, BytesIO, PyInt(1)}
TargetInputs == {None, Path(FALSE), StringIO, BytesIO}
LayoutInputs == {PyStr(s_records), PyStr(s_table), PyStr(s_bogus), None}

Args(data, target, layout) == [data |-> data, target |-> target, layout |-> layout]

\* the read options: limit, offset, exclude_variables, include_variables
LimitInputs == {None, PyInt(-1), PyStr(<<"x">>)} \cup {PyInt(i) : i \in 0..(FileRows + 1)}
OffsetInputs == {PyInt(0), PyInt(1)}
ExcludeInputs ==
    {None, PyList(<<>>), PyList(<<PyInt(1)>>), PyList(<<PyStr(<<"z">>)>>)}
    \cup {PyList(xs) : xs \in DistinctSeqs(Range(FileColumns), 2) \ {<<>>}}
IncludeInputs == {None, PyList(<<PyStr(n_age)>>)}

ReadArgs(data, limit, offset, exclude_variables, include_variables, metadata_only) ==
    [data |-> data, limit |-> limit, offset |-> offset,
     exclude_variables |-> exclude_variables, include_variables |-> include_variables,
     metadata_only |-> metadata_only]
\* the options a call leaves at their defaults
Defaults(args) ==
    {f \in {"limit", "exclude_variables", "include_variables"} : args[f] = None}
    \cup (IF args.offset = PyInt(0) THEN {"offset"} ELSE {})
    \cup (IF ~args.metadata_only THEN {"metadata_only"} ELSE {})

InitRead ==
    /\ ncalls = 0 /\ reads = 0 /\ parses = 0 /\ writes = 0
    /\ created = 0 /\ ondisk = 0 /\ out = None
    /\ heap = <<>> /\ other = Metadata_init
    /\ col = ColumnMetadata_init
    /\ nsets = 0
    /\ meta = Metadata_init
    /\ native = metadata_container
    /\ call = Call("import", Args(None, None, None))
    /\ ret = None
    /\ err = ""

\* the state after a call of read.py with outcome r
Outcome(op, args, r) ==
    /\ ncalls < MaxCalls
    /\ ncalls' = ncalls + 1
    /\ call' = Call(op, args)
    /\ ret' = r.ret
    /\ err' = r.err
    /\ out' = r.out
    /\ reads' = reads + r.eff.reads
    /\ created' = created + r.eff.created
    /\ ondisk' = ondisk + r.eff.ondisk
    /\ UNCHANGED <<col, nsets, meta, native, parses, writes, heap, other>>

ToJson ==
    \E data \in DataInputs, target \in TargetInputs, layout \in LayoutInputs,
       codec_ok \in BOOLEAN :
        Outcome("to_json", Args(data, target, layout), to_json(data, target, layout, codec_ok))

ToYaml ==
    \E data \in DataInputs, target \in TargetInputs, layout \in LayoutInputs,
       codec_ok \in BOOLEAN :
        Outcome("to_yaml", Args(data, target, layout), to_yaml(data, target, layout, codec_ok))

ToDict ==
    \E data \in DataInputs, layout \in LayoutInputs, codec_ok \in BOOLEAN :
        Outcome("to_dict", Args(data, None, layout), to_dict(data, layout, codec_ok))

ExcelTargetInputs == {None, Path(FALSE), BytesIO, ExcelWriter, StringIO}
ToExcel ==
    \E data \in DataInputs, target \in ExcelTargetInputs, codec_ok \in BOOLEAN :
        Outcome("to_excel", [data |-> data, target |-> target],
                to_excel(data, target, codec_ok))

\* the options of a call that sets at most one of them
OptionInputs ==
    {o \in [limit : LimitInputs, offset : OffsetInputs, exclude_variables : ExcludeInputs,
            include_variables : IncludeInputs, metadata_only : BOOLEAN] :
        Cardinality(Defaults(o)) >= 4}

ToDataframe ==
    \E data \in DataInputs, o \in OptionInputs, codec_ok \in BOOLEAN :
        Outcome("to_dataframe",
                ReadArgs(data, o.limit, o.offset, o.exclude_variables, o.include_variables,
                         o.metadata_only),
                to_dataframe(data, o.limit, o.offset, o.exclude_variables,
                             o.include_variables, o.metadata_only, codec_ok))

NextRead ==
    \/ ToJson
    \/ ToYaml
    \/ ToDict
    \/ ToExcel
    \/ ToDataframe

SpecRead == InitRead /\ [][NextRead]_vars

(***************************************************************************)
(* Properties of the reader machine                                        *)
(***************************************************************************)
LayoutGated == {"to_json", "to_yaml", "to_dict"}
BadLayout(c) == c.op \in LayoutGated /\ c.arg.layout \notin {PyStr(s_records), PyStr(s_table)}
\* the target is None, a path or a text buffer
GoodTarget(c) == c.arg.target.kind \in {"NoneType", "path", "StringIO"}

PlainRead(set) ==
    /\ call.op = "to_dataframe"
    /\ call.arg.data \in {Path(TRUE), Bytes}
    /\ Defaults(call.arg) \cup set
         = {"limit", "offset", "exclude_variables", "include_variables", "metadata_only"}
    /\ err # "ReadstatError"

\* C12: a read of the dataset of FileRows records with limit = L,
\* 0 <= L <= FileRows, and offset 0 returns a table of exactly L rows and a
\* Metadata whose rows is FileRows; with limit = None the table has exactly
\* Metadata.rows rows
C12_LimitRows ==
    PlainRead({"limit"}) =>
        /\ call.arg.limit \in {PyInt(i) : i \in 0..FileRows} =>
              /\ err = ""
              /\ ret.val.df.val.rows = call.arg.limit.val
              /\ ret.val.metadata.val.rows = PyInt(FileRows)
        /\ call.arg.limit = None =>
              /\ err = ""
              /\ PyInt(ret.val.df.val.rows) = ret.val.metadata.val.rows

\* C27: in the Metadata every read returns, whatever exclude_variables was,
\* column_metadata is None or a non-empty mapping, and columns is the number
\* of its entries (0 when it is None)
C27_ColumnsNeverEmpty ==
    (call.op = "to_dataframe" /\ err = "") =>
        LET m == ret.val.metadata.val
        IN /\ IsNone(m.column_metadata) \/ (IsDict(m.column_metadata) /\ m.column_metadata.val # <<>>)
           /\ columns(m) = IF IsNone(m.column_metadata) THEN 0 ELSE Len(m.column_metadata.val)

C14_ScratchRemoved ==
    [][(ncalls' = ncalls + 1 /\ ~is_file(call'.arg.data)) => ondisk' = ondisk]_vars

\* C18: a read with default options during which the codec does not fail
\* returns a (table, Metadata) pair for an existing file path, a bytes value
\* and a BytesIO; for any other source it raises InvalidDataFormatError
\* without having called the codec
C18_SourceShapes ==
    [][(/\ ncalls' = ncalls + 1 /\ call'.op = "to_dataframe"
        /\ Cardinality(Defaults(call'.arg)) = 5 /\ err' # "ReadstatError") =>
          IF call'.arg.data \in {Path(TRUE), Bytes, BytesIO}
          THEN err' = "" /\ ret'.kind = "tuple"
          ELSE err' = "InvalidDataFormatError" /\ reads' = reads]_vars

\* a call of op on a readable source during which the codec did not fail
Readable(op) ==
    call.op = op /\ call.arg.data \in {Path(TRUE), Bytes} /\ err # "ReadstatError"

\* C15: to_yaml with a valid layout and a path or a text buffer as target
\* writes the YAML text to the target and returns None; with target = None
\* it returns the YAML text
C15_YamlTarget ==
    (Readable("to_yaml") /\ call.arg.layout \in LayoutValues
     /\ call.arg.target \in {None, Path(FALSE), StringIO}) =>
        /\ err = ""
        /\ IF IsNone(call.arg.target)
           THEN ret.kind = "str" /\ ret.val[1] = "yaml" /\ IsNone(out)
           ELSE IsNone(ret) /\ ~IsNone(out) /\ out.val[1] = "yaml"

\* C16: to_excel with the caller's byte buffer as target writes the workbook
\* into that buffer and returns None; with target = None it returns a new
\* buffer that holds the workbook
C16_ExcelTarget ==
    (Readable("to_excel") /\ call.arg.target \in {None, BytesIO}) =>
        /\ err = ""
        /\ IF IsNone(call.arg.target)
           THEN /\ is_bytesIO(ret) /\ ret.val.id = "new" /\ ret.val.content[1] = "xlsx"
                /\ IsNone(out)
           ELSE IsNone(ret) /\ ~IsNone(out) /\ out[1] = "xlsx"

(***************************************************************************)
(* write.py                                                                *)
(***************************************************************************)
DataFrame(names, nrows) ==
    [kind |-> "DataFrame", val |-> [columns |-> names, rows |-> nrows]]

\* what a call of write.py does besides returning: sources parsed, codec
\* writes made, scratch files created (each is deleted when its with block
\* is left)
WEffect(p, w, c) == [parses |-> p, writes |-> w, created |-> c]
WReturned(v, written, eff) == [err |-> "", ret |-> v, out |-> written, eff |-> eff]
WRaised(e, eff) == [err |-> e, ret |-> None, out |-> None, eff |-> eff]
Parsing(r, n) == [r EXCEPT !.eff.parses = @ + n]

\* the dataset pyreadstat.write_sav stores for df and the given file label
SavData(df, file_label) == <<"sav", df.val.columns, df.val.rows, file_label>>

\* from_dataframe(df, target, metadata); codec_ok says whether
\* pyreadstat.write_sav returns or raises
from_dataframe(df, target, metadata, codec_ok) ==
    LET converted == IF is_type(metadata, "metadata_container")
                     THEN Metadata_from_pyreadstat(metadata.val)
                     ELSE IF is_type(metadata, "dict") THEN Metadata_from_dict(metadata)
                     ELSE [err |-> "", obj |-> metadata.val]
        as_pyreadstat == Metadata_to_pyreadstat(converted.obj)
        stored == SavData(df, IF Falsy(metadata) THEN None ELSE as_pyreadstat.val.file_label)
    IN IF ~is_type(df, "DataFrame") THEN WRaised("ValueError", WEffect(0, 0, 0))
       ELSE IF ~Falsy(metadata) /\ metadata.kind \notin {"Metadata", "metadata_container", "dict"}
       THEN WRaised("ValueError", WEffect(0, 0, 0))
       ELSE IF ~Falsy(metadata) /\ converted.err # ""
       THEN WRaised(converted.err, WEffect(0, 0, 0))
       \* validators.bytesIO(target, allow_empty = False)
       ELSE IF ~Falsy(target) /\ ~is_pathlike(target) /\ ~is_bytesIO(target)
       THEN WRaised("NotBytesIOError", WEffect(0, 0, 0))
       ELSE IF ~Falsy(metadata) /\ as_pyreadstat.err # ""
       THEN WRaised(as_pyreadstat.err, WEffect(0, 0, 0))
       ELSE IF ~Falsy(target) /\ is_pathlike(target)
       THEN IF codec_ok THEN WReturned(None, stored, WEffect(0, 1, 0))
            ELSE WRaised("PyreadstatError", WEffect(0, 1, 0))
       ELSE IF ~codec_ok THEN WRaised("PyreadstatError", WEffect(0, 1, 1))
       ELSE IF ~Falsy(target)
       THEN WReturned(Written(target, stored), stored, WEffect(0, 1, 1))   \* return target
       ELSE WReturned(NewBytesIO(stored), None, WEffect(0, 1, 1))

\* pandas.read_json(as_json, orient = orient): [err, val]; a text that is
\* no JSON document of that layout is refused
read_json(as_json, orient) ==
    IF IsStr(as_json) /\ Len(as_json.val) = 4 /\ as_json.val[1] = "json"
       /\ as_json.val[2] = orient.val
    THEN Ok(DataFrame(as_json.val[3], as_json.val[4]))
    ELSE Raise("ValueError")

\* from_json(as_json, target, layout)
from_json(as_json, target, layout, codec_ok) ==
    IF layout \notin LayoutValues
    THEN WRaised("NameError", WEffect(0, 0, 0))   \* errors is not imported by write.py
    ELSE LET df == read_json(as_json, layout)
         IN IF df.err # "" THEN WRaised(df.err, WEffect(1, 0, 0))
            ELSE Parsing(from_dataframe(df.val, target, None, codec_ok), 1)

\* json.dumps(yaml.safe_load(as_yaml)): the JSON text of a YAML text
dumps_safe_load(as_yaml) ==
    IF Len(as_yaml.val) = 4 /\ as_yaml.val[1] = "yaml"
    THEN [as_yaml EXCEPT !.val[1] = "json"]
    ELSE [kind |-> "str", val |-> <<"json", as_yaml.val>>]

\* from_yaml(as_yaml, target, layout); a file given as source holds YAML
from_yaml(as_yaml, target, layout, codec_ok) ==
    IF is_bytesIO(as_yaml) THEN WRaised("TypeError", WEffect(0, 0, 0))   \* open(a buffer)
    ELSE IF is_file(as_yaml)
    THEN WRaised("UnboundLocalError", WEffect(1, 0, 0))   \* as_json is never assigned
    ELSE LET v == validators_string(as_yaml, FALSE)
         IN IF v.err # "" THEN WRaised(v.err, WEffect(0, 0, 0))
            ELSE Parsing(from_json(dumps_safe_load(v.val), target, layout, codec_ok), 1)

(***************************************************************************)
(* The writer machine: calls of from_dataframe, from_json and from_yaml    *)
(***************************************************************************)
\* a Metadata with one column, a row count and a file label
LabelledMetadata ==
    metadata_assign_all(1, Metadata_init,
        << <<"column_metadata",
             PyDict(<< <<PyStr(n_age), ColumnMetadataObj(FullColumn(n_age))>> >>)>>,
           <<"rows", PyInt(MaxRows)>>,
           <<"file_label", PyStr(l_Age)>> >>).obj

DataFrameInputs == {DataFrame(FileColumns, r) : r \in 0..MaxRows} \cup {PyInt(1)}
WriteTargetInputs == {None, Path(FALSE), BytesIO, StringIO}
WriteMetadataInputs ==
    {None, PyInt(1), PyDict(<<>>), MetadataObj(Metadata_init), MetadataObj(LabelledMetadata),
     Metadata_to_dict(LabelledMetadata), ContainerObj(CodecMetadata(FileColumns, MaxRows))}
JsonInputs ==
    {JsonText(df.val, l) : df \in DataFrameInputs \ {PyInt(1)}, l \in LayoutValues}
    \cup {PyStr(<<"x">>), None}
YamlInputs ==
    {YamlText(df.val, l) : df \in DataFrameInputs \ {PyInt(1)}, l \in LayoutValues}
    \cup {PyStr(<<"x">>), PyStr(<<>>), PyInt(1), Path(TRUE), BytesIO}

WArgs(source, target, layout, metadata) ==
    [source |-> source, target |-> target, layout |-> layout, metadata |-> metadata]

InitWrite ==
    /\ ncalls = 0 /\ reads = 0 /\ parses = 0 /\ writes = 0
    /\ created = 0 /\ ondisk = 0 /\ out = None
    /\ heap = <<>> /\ other = Metadata_init
    /\ col = ColumnMetadata_init
    /\ nsets = 0
    /\ meta = Metadata_init
    /\ native = metadata_container
    /\ call = Call("import", WArgs(None, None, None, None))
    /\ ret = None
    /\ err = ""

\* the state after a call of write.py with outcome r
WOutcome(op, args, r) ==
    /\ ncalls < MaxCalls
    /\ ncalls' = ncalls + 1
    /\ call' = Call(op, args)
    /\ ret' = r.ret
    /\ err' = r.err
    /\ out' = r.out
    /\ parses' = parses + r.eff.parses
    /\ writes' = writes + r.eff.writes
    /\ created' = created + r.eff.created
    /\ UNCHANGED <<col, nsets, meta, native, reads, ondisk, heap, other>>

\* a from_dataframe call with a DataFrame, no metadata and a target the
\* function accepts, during which the codec did not fail
PlainWrite ==
    /\ call.op = "from_dataframe"
    /\ is_type(call.arg.source, "DataFrame") /\ IsNone(call.arg.metadata)
    /\ call.arg.target \in {None, Path(FALSE), BytesIO}
    /\ err # "PyreadstatError"

FromDataframe ==
    \E df \in DataFrameInputs, target \in WriteTargetInputs,
       metadata \in WriteMetadataInputs, codec_ok \in BOOLEAN :
        WOutcome("from_dataframe", WArgs(df, target, None, metadata),
                 from_dataframe(df, target, metadata, codec_ok))

FromJson ==
    \E as_json \in JsonInputs, target \in WriteTargetInputs, layout \in LayoutInputs,
       codec_ok \in BOOLEAN :
        WOutcome("from_json", WArgs(as_json, target, layout, None),
                 from_json(as_json, target, layout, codec_ok))

FromYaml ==
    \E as_yaml \in YamlInputs, target \in WriteTargetInputs, layout \in LayoutInputs,
       codec_ok \in BOOLEAN :
        WOutcome("from_yaml", WArgs(as_yaml, target, layout, None),
                 from_yaml(as_yaml, target, layout, codec_ok))

NextWrite ==
    \/ FromDataframe
    \/ FromJson
    \/ FromYaml

SpecWrite == InitWrite /\ [][NextWrite]_vars

(***************************************************************************)
(* Properties of the writer machine                                        *)
(***************************************************************************)
\* C11: from_json and from_yaml called with a layout other than 'records'
\* or 'table' raise InvalidLayoutError without having parsed the source,
\* called the codec, created a scratch file or written to the target
C11_WriteLayoutGate ==
    [][(ncalls' = ncalls + 1 /\ call'.op \in {"from_json", "from_yaml"}
        /\ call'.arg.layout \notin LayoutValues) =>
          /\ err' = "InvalidLayoutError"
          /\ parses' = parses
          /\ writes' = writes
          /\ created' = created
          /\ out' = None]_vars

\* C17 as stated: from_dataframe with a path or a byte buffer as target
\* writes the dataset to the target and returns None; with target = None it
\* returns a new byte buffer holding the dataset
C17_TargetReturnsNone ==
    PlainWrite =>
        /\ err = ""
        /\ IF IsNone(call.arg.target)
           THEN /\ is_bytesIO(ret) /\ ret.val.id = "new"
                /\ ret.val.content = SavData(call.arg.source, None)
           ELSE IsNone(ret) /\ out = SavData(call.arg.source, None)

\* C17: from_dataframe with a path as target writes the dataset there and
\* returns None; with a byte buffer as target it writes the dataset into the
\* buffer and returns that same buffer; with target = None it returns a new
\* byte buffer holding the dataset
C17_TargetReturn ==
    PlainWrite =>
        /\ err = ""
        /\ is_pathlike(call.arg.target) =>
              IsNone(ret) /\ out = SavData(call.arg.source, None)
        /\ is_bytesIO(call.arg.target) =>
              /\ is_bytesIO(ret) /\ ret.val.id = call.arg.target.val.id
              /\ ret.val.content = SavData(call.arg.source, None)
              /\ out = SavData(call.arg.source, None)
        /\ IsNone(call.arg.target) =>
              /\ is_bytesIO(ret) /\ ret.val.id = "new"
              /\ ret.val.content = SavData(call.arg.source, None)
              /\ IsNone(out)

\* from_dataframe was given the caller's buffer and returned it, holding a
\* dataset of one record
C17_Witness ==
    /\ PlainWrite /\ err = ""
    /\ call.arg.target = BytesIO
    /\ call.arg.source.val.rows = 1
    /\ is_bytesIO(ret) /\ ret.val.id = "caller" /\ ret.val.content # <<>>

\* the text of the YAML file every existing path names: the dataset in the
\* records layout
YamlFile == YamlText([columns |-> FileColumns, rows |-> FileRows], PyStr(s_records))

\* C22: from_yaml given the path of an existing YAML file returns, and writes
\* to its target, what it does when given the text of that file
C22_YamlFromPath ==
    (/\ call.op = "from_yaml" /\ call.arg.source = Path(TRUE)
     /\ call.arg.layout = PyStr(s_records)
     /\ call.arg.target \in {None, Path(FALSE), BytesIO}
     /\ err # "PyreadstatError") =>
        LET r == from_yaml(YamlFile, call.arg.target, call.arg.layout, TRUE)
        IN err = "" /\ ret = r.ret /\ out = r.out

====
